---- MODULE Spec2Model ----
(***************************************************************************)
(* State-machine model of bot.py (Central London Roleplay bot): the        *)
(* anti-ping escalation tracker, the poll lifecycle and the ticket         *)
(* workflow.  Every handler is an action; a handler that awaits platform   *)
(* I/O is split at its awaits into one action per segment, and the         *)
(* suspended coroutine is kept as a task record.                           *)
(***************************************************************************)
EXTENDS Integers, Sequences, FiniteSets, Bags, TLC

VARIABLES
    now,              \* value returned by now_ts(), in seconds
    is_paused,        \* bot.py:146
    mention_strikes,  \* bot.py:148  user_id -> [count, reset_at]
    last_msg,         \* history: what the last on_message call did
    scen,             \* history: progress of ScenUser along Scenario
    window_start,     \* history: first offense of each user's current window
    msg_tasks,        \* bag of on_message coroutines suspended on platform I/O
    running,          \* the bot is connected: bot.close() has not completed
    cd_clock,         \* seconds on the clock of the event loop
    cd_tasks,         \* the invocations of code_delete, in order of arrival
    last_cevent,      \* history: what the last step of the shutdown flow did
    polls,            \* the poll dicts built by poll_cmd, by poll id
    active_polls,     \* bot.py:149  the ids whose dict is in active_polls
    poll_msgs,        \* platform: the view shown by each poll's message
    timers,           \* the auto_close coroutine of each poll
    poll_tasks,       \* bag of coroutines suspended on platform I/O
    last_event,       \* history: what the last step of the poll system did
    close_runs,       \* history: entries into close_poll_internal, by poll
    final_renders,    \* history: final (closed) renders issued, by poll
    vscen,            \* history: progress of the applied votes along VoteScript
    tickets,          \* the live TicketControls views, by ticket
    channels,         \* platform: the ticket channels
    chan_first,       \* platform: author of the first ordinary message of a channel
    ticket_tasks,     \* bag of ticket coroutines suspended on platform I/O
    last_tevent,      \* history: what the last step of the ticket system did
    claims_won,       \* history: successful claims, by ticket
    close_reqs,       \* history: close requests made, by ticket
    captures,         \* history: transcripts captured, by ticket
    archives,         \* history: transcripts delivered to the archive, by ticket
    notifies          \* history: close notifications sent, by ticket

shutdownVars == <<running, cd_clock, cd_tasks, last_cevent>>

strikeVars == <<now, mention_strikes, last_msg, scen, window_start, msg_tasks,
               shutdownVars>>

pollVars == <<polls, active_polls, poll_msgs, timers, poll_tasks, last_event,
              close_runs, final_renders, vscen>>

ticketVars == <<tickets, channels, chan_first, ticket_tasks, last_tevent,
                claims_won, close_reqs, captures, archives, notifies>>

vars == <<now, is_paused, mention_strikes, last_msg, scen, window_start, msg_tasks,
          running, cd_clock, cd_tasks, last_cevent, polls, active_polls,
          poll_msgs, timers, poll_tasks, last_event, close_runs, final_renders,
          vscen, tickets, channels, chan_first, ticket_tasks, last_tevent,
          claims_won, close_reqs, captures, archives, notifies>>

----------------------------------------------------------------------------
(* Python dict helpers: a dict is a function whose DOMAIN is its key set. *)

EmptyDict == <<>>

HasKey(d, k) == k \in DOMAIN d

DictSet(d, k, v) == [x \in DOMAIN d \cup {k} |-> IF x = k THEN v ELSE d[x]]

DictPop(d, k) == [x \in DOMAIN d \ {k} |-> d[x]]

Min(a, b) == IF a <= b THEN a ELSE b

Max(a, b) == IF a >= b THEN a ELSE b

RECURSIVE Pow2(_)
Pow2(n) == IF n <= 0 THEN 1 ELSE 2 * Pow2(n - 1)

----------------------------------------------------------------------------
(* Members and constants *)

Users == {"A", "B"}

MASTER_USER_ID == "A"

TIMEOUT_BASE_MINUTES == 5

TIMEOUT_MAX_MINUTES == 120

STRIKE_RESET_HOURS == 24

\* Bounds of the model
BurstHours == 1

\* The highest count followed when one member offends alone (SpecLadder), and
\* when both members offend and their runs interleave (SpecStrikes).
MaxCount == 7

MaxStrikes == 2

MaxLevel == 20

\* The runs of on_message suspended on platform I/O at one time.
MaxPending == 2

\* The instants at which the clock is observed: every hour of the first
\* BurstHours hours, then one hour past the 24h window of an offense at 0h
\* (which is the exact end of the window of an offense at 1h).
ClockHours == (0 .. BurstHours) \cup {STRIKE_RESET_HOURS + 1}

TimePoints == {h * 3600 : h \in ClockHours}

\* The hours of the escalation scenario: offenses at 0,1,..,5 and 25 hours.
Scenario == <<0, 1, 2, 3, 4, 5, 25>>

ScenarioPoints == {Scenario[i] * 3600 : i \in 1 .. Len(Scenario)}

----------------------------------------------------------------------------
(* Anti-ping escalation tracker *)

\* _reset_or_increment_strikes: the entry stored for author_id after the call.
StrikeEntryAfterSlidingWindow(strikes, author_id, ts) ==
    IF ~HasKey(strikes, author_id) \/ ts >= strikes[author_id].reset_at
    THEN [count |-> 1, reset_at |-> ts + STRIKE_RESET_HOURS * 3600]
    ELSE [count |-> strikes[author_id].count + 1,
          reset_at |-> ts + STRIKE_RESET_HOURS * 3600]

StrikeEntryAfterStrictBoundary(strikes, author_id, ts) ==
    IF ~HasKey(strikes, author_id) \/ ts > strikes[author_id].reset_at
    THEN [count |-> 1, reset_at |-> ts + STRIKE_RESET_HOURS * 3600]
    ELSE [strikes[author_id] EXCEPT !.count = @ + 1]

StrikeEntryAfter(strikes, author_id, ts) ==
    IF ~HasKey(strikes, author_id) \/ ts >= strikes[author_id].reset_at
    THEN [count |-> 1, reset_at |-> ts + STRIKE_RESET_HOURS * 3600]
    ELSE [strikes[author_id] EXCEPT !.count = @ + 1]

\* _reset_or_increment_strikes: the dict after the call and the value returned.
reset_or_increment_strikes(strikes, author_id, ts) ==
    LET e == StrikeEntryAfter(strikes, author_id, ts)
    IN  [strikes |-> DictSet(strikes, author_id, e), count |-> e.count]

timeout_minutes_uncapped(count) ==
    IF count <= 1 THEN 0 ELSE TIMEOUT_BASE_MINUTES * Pow2(count - 2)

timeout_minutes_for_count(count) ==
    IF count <= 1
    THEN 0
    ELSE Min(TIMEOUT_BASE_MINUTES * Pow2(count - 2), TIMEOUT_MAX_MINUTES)

\* History of the designated scenario: ScenUser offends at hours 0,1,..,5, 25.
ScenUser == "B"

ScenNext(author, ts) ==
    IF author # ScenUser THEN scen
    ELSE IF scen >= 0 /\ scen < Len(Scenario) /\ ts = Scenario[scen + 1] * 3600
         THEN scen + 1
         ELSE -1

\* History of the windows: the instant of the offense that opened the
\* author's current window.  An offense opens a window when the author has no
\* window yet or when STRIKE_RESET_HOURS have passed since the window opened.
WindowStartNext(author, ts) ==
    IF \/ ~HasKey(window_start, author)
       \/ ts - window_start[author] >= STRIKE_RESET_HOURS * 3600
    THEN DictSet(window_start, author, ts)
    ELSE window_start

\* History of the anti-ping block: its last event.  "registered" is the call
\* of _reset_or_increment_strikes, with the count it returned and the number of
\* protected members the message mentions; "warn", "warn_failed", "timeout"
\* and "timeout_failed" are the outcomes of the awaited platform calls, with
\* the count held by the run they belong to.  Every other step of on_message
\* leaves NoMsg.
NoMsg ==
    [author |-> "None", count |-> 0, action |-> "none", minutes |-> 0,
     mentions |-> 0]

\* A message is given by what on_message reads of it: whether its author is a
\* bot, whether it was sent in a guild, whether it holds TRIGGER_PHRASE, whether
\* it starts with "clr!", the prefix command it invokes, and how many SLT/ALT
\* members it mentions.
Msg(bot, guild, trigger, prefix, cmd, nprot) ==
    [bot |-> bot, guild |-> guild, trigger |-> trigger, prefix |-> prefix,
     cmd |-> cmd, nprot |-> nprot]

Messages ==
    { Msg(TRUE,  TRUE,  FALSE, FALSE, "none",  1),
      Msg(FALSE, FALSE, FALSE, FALSE, "none",  1),
      Msg(FALSE, TRUE,  TRUE,  FALSE, "none",  1),
      Msg(FALSE, TRUE,  FALSE, FALSE, "none",  0),
      Msg(FALSE, TRUE,  FALSE, FALSE, "none",  1),
      Msg(FALSE, TRUE,  FALSE, FALSE, "none",  2),
      Msg(FALSE, TRUE,  FALSE, TRUE,  "esd",   0),
      Msg(FALSE, TRUE,  FALSE, TRUE,  "esd",   1),
      Msg(FALSE, TRUE,  FALSE, TRUE,  "stu",   0) }

\* pause_bot (clr!esd) and resume_bot (clr!stu), run by process_commands.
pause_bot(author) ==
    is_paused' = IF author = MASTER_USER_ID /\ ~is_paused THEN TRUE ELSE is_paused

resume_bot(author) ==
    is_paused' = IF author = MASTER_USER_ID /\ is_paused THEN FALSE ELSE is_paused

process_commands(author, m) ==
    CASE m.cmd = "esd" -> pause_bot(author)
      [] m.cmd = "stu" -> resume_bot(author)
      [] OTHER -> UNCHANGED is_paused

\* A run of on_message suspended at an await of the anti-ping block: whose
\* message it handles, the count _reset_or_increment_strikes returned to it,
\* the prefix command of the message, and the await it waits at: "reply"
\* (bot.py:253), "timeout" (261) or "notice" (263 or 271).
MsgTask(author, count, cmd, pc) ==
    [author |-> author, count |-> count, cmd |-> cmd, pc |-> pc]

Pending == BagCardinality(msg_tasks)

MsgSpawn(t) == msg_tasks (+) SetToBag({t})

MsgResume(t, t2) == (msg_tasks (-) SetToBag({t})) (+) SetToBag({t2})

MsgFinish(t) == msg_tasks (-) SetToBag({t})

\* on_message, anti-ping (bot.py:239-250): protected_ids is a set, and a
\* message whose set is not empty calls _reset_or_increment_strikes once.
RECURSIVE RegisterOffensePerMention(_, _, _, _)
RegisterOffensePerMention(strikes, author, ts, m) ==
    IF m.nprot <= 1
    THEN reset_or_increment_strikes(strikes, author, ts)
    ELSE RegisterOffensePerMention(
             reset_or_increment_strikes(strikes, author, ts).strikes,
             author, ts, [m EXCEPT !.nprot = @ - 1])

RegisterOffense(strikes, author, ts, m) ==
    reset_or_increment_strikes(strikes, author, ts)

\* on_message up to its first await (bot.py:219-261).  A message with a
\* protected mention has its strike registered and the coroutine is left
\* suspended in message.reply (first offense) or in message.author.timeout
\* (later offenses); every other message is handled in one piece, the prefix
\* command included, whose handler assigns is_paused before its own await.
OnMessage(author, m) ==
    /\ UNCHANGED <<now, shutdownVars>>
    /\ UNCHANGED <<pollVars, ticketVars>>
    /\ IF m.bot \/ ~m.guild THEN
            /\ last_msg' = NoMsg
            /\ UNCHANGED <<mention_strikes, scen, window_start, is_paused,
                           msg_tasks>>
       ELSE IF m.trigger THEN
            /\ last_msg' = NoMsg
            /\ UNCHANGED <<mention_strikes, scen, window_start, is_paused,
                           msg_tasks>>
       ELSE IF is_paused /\ ~m.prefix /\ author # MASTER_USER_ID THEN
            /\ last_msg' = NoMsg
            /\ UNCHANGED <<mention_strikes, scen, window_start, is_paused,
                           msg_tasks>>
       ELSE IF m.nprot = 0 THEN
            /\ last_msg' = NoMsg
            /\ UNCHANGED <<mention_strikes, scen, window_start, msg_tasks>>
            /\ process_commands(author, m)
       ELSE
            LET r == RegisterOffense(mention_strikes, author, now, m)
                minutes == timeout_minutes_for_count(r.count)
            IN  /\ r.count <= MaxCount
                /\ Pending < MaxPending
                /\ mention_strikes' = r.strikes
                /\ scen' = ScenNext(author, now)
                /\ window_start' = WindowStartNext(author, now)
                /\ last_msg' =
                     [author |-> author, count |-> r.count,
                      action |-> "registered",
                      minutes |-> IF r.count = 1 THEN 0 ELSE minutes,
                      mentions |-> m.nprot]
                /\ IF r.count = 1
                   THEN /\ msg_tasks' = MsgSpawn(MsgTask(author, r.count, m.cmd, "reply"))
                        /\ UNCHANGED is_paused
                   ELSE IF minutes > 0
                   THEN /\ msg_tasks' = MsgSpawn(MsgTask(author, r.count, m.cmd, "timeout"))
                        /\ UNCHANGED is_paused
                   ELSE /\ UNCHANGED msg_tasks
                        /\ process_commands(author, m)

\* on_message after one of its awaits returned or raised (bot.py:252-275): the
\* strike dict once the warning or the timeout was delivered or has failed.
\* Every failure is swallowed and no branch assigns mention_strikes again.
StrikesAfterDeliveryRollback(strikes, t, delivery_ok) ==
    IF delivery_ok \/ ~HasKey(strikes, t.author) THEN strikes
    ELSE IF strikes[t.author].count <= 1 THEN DictPop(strikes, t.author)
    ELSE [strikes EXCEPT ![t.author].count = @ - 1]

StrikesAfterDelivery(strikes, t, delivery_ok) == strikes

\* The warning reply of a first offense returns or raises (bot.py:252-255);
\* on_message goes on to process_commands (278).
WarnReplied(t, delivery_ok) ==
    /\ BagIn(t, msg_tasks) /\ t.pc = "reply"
    /\ msg_tasks' = MsgFinish(t)
    /\ mention_strikes' = StrikesAfterDelivery(mention_strikes, t, delivery_ok)
    /\ last_msg' = [author |-> t.author, count |-> t.count,
                    action |-> IF delivery_ok THEN "warn" ELSE "warn_failed",
                    minutes |-> 0, mentions |-> 0]
    /\ process_commands(t.author, t)
    /\ UNCHANGED <<now, scen, window_start, shutdownVars>>
    /\ UNCHANGED <<pollVars, ticketVars>>

\* message.author.timeout returns or raises (bot.py:259-268); either way
\* on_message issues a reply, the announcement of the timeout or the notice
\* that the permission is lacking.
TimeoutReturned(t, delivery_ok) ==
    /\ BagIn(t, msg_tasks) /\ t.pc = "timeout"
    /\ msg_tasks' = MsgResume(t, [t EXCEPT !.pc = "notice"])
    /\ mention_strikes' = StrikesAfterDelivery(mention_strikes, t, delivery_ok)
    /\ last_msg' = [author |-> t.author, count |-> t.count,
                    action |-> IF delivery_ok THEN "timeout" ELSE "timeout_failed",
                    minutes |-> timeout_minutes_for_count(t.count),
                    mentions |-> 0]
    /\ UNCHANGED <<now, is_paused, scen, window_start, shutdownVars>>
    /\ UNCHANGED <<pollVars, ticketVars>>

\* The reply that follows the timeout returns or raises, which is swallowed
\* (bot.py:262-275); on_message goes on to process_commands (278).
NoticeReplied(t) ==
    /\ BagIn(t, msg_tasks) /\ t.pc = "notice"
    /\ msg_tasks' = MsgFinish(t)
    /\ last_msg' = NoMsg
    /\ process_commands(t.author, t)
    /\ UNCHANGED <<now, mention_strikes, scen, window_start, shutdownVars>>
    /\ UNCHANGED <<pollVars, ticketVars>>

\* The clock moves on to a later one of the given instants.
ClockStep(points) ==
    /\ \E t \in points : t > now /\ now' = t
    /\ UNCHANGED <<is_paused, mention_strikes, last_msg, scen, window_start,
                   msg_tasks>>
    /\ UNCHANGED shutdownVars
    /\ UNCHANGED <<pollVars, ticketVars>>

Tick == ClockStep(TimePoints)

ScenarioTick == ClockStep(ScenarioPoints)

StrikeInit ==
    /\ now = 0
    /\ is_paused = FALSE
    /\ mention_strikes = EmptyDict
    /\ last_msg = NoMsg
    /\ scen = 0
    /\ window_start = EmptyDict
    /\ msg_tasks = EmptyBag

\* A message of a member, while no member is followed beyond MaxStrikes.
MemberMessage(author, m) ==
    /\ OnMessage(author, m)
    /\ HasKey(mention_strikes', author)
          => mention_strikes'[author].count <= MaxStrikes

StrikeNext ==
    \/ Tick
    \/ \E author \in Users, m \in Messages : MemberMessage(author, m)
    \/ \E t \in BagToSet(msg_tasks), delivery_ok \in BOOLEAN :
          WarnReplied(t, delivery_ok)
    \/ \E t \in BagToSet(msg_tasks), delivery_ok \in BOOLEAN :
          TimeoutReturned(t, delivery_ok)
    \/ \E t \in BagToSet(msg_tasks) : NoticeReplied(t)

\* One member alone pings protected members, through the hours of Scenario.
LadderMessages ==
    {m \in Messages : ~m.bot /\ m.guild /\ ~m.trigger /\ ~m.prefix /\ m.nprot >= 1}

LadderNext ==
    \/ ScenarioTick
    \/ \E m \in LadderMessages : OnMessage(ScenUser, m)
    \/ \E t \in BagToSet(msg_tasks), delivery_ok \in BOOLEAN :
          WarnReplied(t, delivery_ok)
    \/ \E t \in BagToSet(msg_tasks), delivery_ok \in BOOLEAN :
          TimeoutReturned(t, delivery_ok)
    \/ \E t \in BagToSet(msg_tasks) : NoticeReplied(t)

----------------------------------------------------------------------------
(* Shutdown confirmation: clr!codedelete *)

\* Bounds of the model: the invocations of code_delete, and the instants of
\* the clock, one every TickSeconds seconds.
MaxInvocations == 2

MaxTicks == 5

TickSeconds == 5

\* bot.wait_for("message", timeout=15, ...)
CONFIRM_TIMEOUT == 15

Channels == {"c1", "c2"}

\* A message text: its characters without the surrounding whitespace, and
\* whether there is surrounding whitespace.
Text(body, padded) == [body |-> body, padded |-> padded]

Texts == { Text("CONFIRM DELETE", FALSE), Text("CONFIRM DELETE", TRUE),
           Text("confirm delete", FALSE) }

\* str.strip
Strip(text) == Text(text.body, FALSE)

\* How a platform call ends: it returns, raises a discord exception, or
\* raises asyncio.TimeoutError.
CallResults == {"ok", "error", "timeout"}

\* An invocation of code_delete: where its coroutine is, who invoked it and
\* where, when its wait_for times out, whether wait_for returned a message
\* (answered) or raised asyncio.TimeoutError (fired), whether the try body
\* went on past wait_for (confirmed), whether the except clause ran
\* (aborted), and whether it closed the bot.
CdTask(author, channel) ==
    [pc |-> "prompt", author |-> author, channel |-> channel, deadline |-> 0,
     answered |-> FALSE, fired |-> FALSE, confirmed |-> FALSE,
     aborted |-> FALSE, closed |-> FALSE]

CEvent(op, inv, author, channel, text, result) ==
    [op |-> op, inv |-> inv, author |-> author, channel |-> channel,
     text |-> text, result |-> result]

NoText == Text("", FALSE)

NoCEvent == CEvent("none", 0, "None", "None", NoText, "none")

IoCEvent(inv) == CEvent("io", inv, "None", "None", NoText, "none")

\* The check given to wait_for (bot.py:316-317).
check(t, author, channel, text) ==
    /\ author = t.author
    /\ channel = t.channel
    /\ Strip(text) = Text("CONFIRM DELETE", FALSE)

\* code_delete up to its first await (bot.py:311-314).
CodeDelete(author, channel) ==
    /\ running
    /\ Len(cd_tasks) < MaxInvocations
    /\ IF author # MASTER_USER_ID
       THEN /\ UNCHANGED cd_tasks
            /\ last_cevent' = CEvent("codedelete", 0, author, channel, NoText,
                                     "NotMaster")
       ELSE /\ cd_tasks' = Append(cd_tasks, CdTask(author, channel))
            /\ last_cevent' = CEvent("codedelete", Len(cd_tasks) + 1, author,
                                     channel, NoText, "Prompting")
    /\ UNCHANGED <<running, cd_clock>>
    /\ UNCHANGED <<is_paused, now, mention_strikes, last_msg, scen, window_start,
                   msg_tasks>>
    /\ UNCHANGED <<pollVars, ticketVars>>

\* The prompt reply returns and wait_for starts its timeout, or the reply
\* raises outside the try and the command ends (bot.py:314-318).
PromptReplied(i, r) ==
    /\ running
    /\ i \in DOMAIN cd_tasks /\ cd_tasks[i].pc = "prompt"
    /\ cd_tasks' = IF r = "ok"
                   THEN [cd_tasks EXCEPT ![i].pc = "wait",
                                         ![i].deadline = cd_clock + CONFIRM_TIMEOUT]
                   ELSE [cd_tasks EXCEPT ![i].pc = "done"]
    /\ last_cevent' = IoCEvent(i)
    /\ UNCHANGED <<running, cd_clock>>
    /\ UNCHANGED <<is_paused, now, mention_strikes, last_msg, scen, window_start,
                   msg_tasks>>
    /\ UNCHANGED <<pollVars, ticketVars>>

\* The invocations whose wait_for the message answers.
Answered(author, channel, text) ==
    {i \in DOMAIN cd_tasks :
        cd_tasks[i].pc = "wait" /\ check(cd_tasks[i], author, channel, text)}

\* A message event is dispatched: every wait_for whose check accepts the
\* message returns it, and its coroutine issues the reply "Confirmed.
\* Shutting down now." (bot.py:318-319).
MessageEvent(author, channel, text) ==
    /\ running
    /\ cd_tasks # <<>>
    /\ cd_tasks' = [i \in DOMAIN cd_tasks |->
                      IF i \in Answered(author, channel, text)
                      THEN [cd_tasks[i] EXCEPT !.pc = "confirm_reply",
                                               !.answered = TRUE,
                                               !.confirmed = TRUE]
                      ELSE cd_tasks[i]]
    /\ last_cevent' = CEvent("message", 0, author, channel, text,
                             IF Answered(author, channel, text) # {}
                             THEN "Answered" ELSE "Ignored")
    /\ UNCHANGED <<running, cd_clock>>
    /\ UNCHANGED <<is_paused, now, mention_strikes, last_msg, scen, window_start,
                   msg_tasks>>
    /\ UNCHANGED <<pollVars, ticketVars>>

\* The timeout of wait_for fires: asyncio.TimeoutError is raised in the try
\* and the except clause issues the abort reply (bot.py:318-322).
WaitTimeout(i) ==
    /\ running
    /\ i \in DOMAIN cd_tasks /\ cd_tasks[i].pc = "wait"
    /\ cd_clock >= cd_tasks[i].deadline
    /\ cd_tasks' = [cd_tasks EXCEPT ![i].pc = "abort_reply", ![i].fired = TRUE,
                                    ![i].aborted = TRUE]
    /\ last_cevent' = CEvent("timeout", i, "None", "None", NoText, "Fired")
    /\ UNCHANGED <<running, cd_clock>>
    /\ UNCHANGED <<is_paused, now, mention_strikes, last_msg, scen, window_start,
                   msg_tasks>>
    /\ UNCHANGED <<pollVars, ticketVars>>

\* Where the try body goes when the call it awaits ends with r: on to next_pc,
\* into the except clause on asyncio.TimeoutError, out of the command on any
\* other exception (bot.py:315-322).
AfterTryCall(t, r, next_pc) ==
    CASE r = "ok"      -> [t EXCEPT !.pc = next_pc]
      [] r = "timeout" -> [t EXCEPT !.pc = "abort_reply", !.aborted = TRUE]
      [] OTHER         -> [t EXCEPT !.pc = "done"]

\* The reply "Confirmed. Shutting down now." returns or raises (bot.py:319).
ConfirmReplied(i, r) ==
    /\ running
    /\ i \in DOMAIN cd_tasks /\ cd_tasks[i].pc = "confirm_reply"
    /\ cd_tasks' = [cd_tasks EXCEPT ![i] = AfterTryCall(@, r, "closing")]
    /\ last_cevent' = IoCEvent(i)
    /\ UNCHANGED <<running, cd_clock>>
    /\ UNCHANGED <<is_paused, now, mention_strikes, last_msg, scen, window_start,
                   msg_tasks>>
    /\ UNCHANGED <<pollVars, ticketVars>>

\* bot.close() returns or raises (bot.py:320).
BotClosed(i, r) ==
    /\ running
    /\ i \in DOMAIN cd_tasks /\ cd_tasks[i].pc = "closing"
    /\ cd_tasks' = [cd_tasks EXCEPT
                      ![i] = [AfterTryCall(@, r, "done") EXCEPT
                                !.closed = (r = "ok")]]
    /\ running' = (r # "ok")
    /\ last_cevent' = IF r = "ok"
                      THEN CEvent("shutdown", i, "None", "None", NoText, "Closed")
                      ELSE IoCEvent(i)
    /\ UNCHANGED cd_clock
    /\ UNCHANGED <<is_paused, now, mention_strikes, last_msg, scen, window_start,
                   msg_tasks>>
    /\ UNCHANGED <<pollVars, ticketVars>>

\* The reply "Confirmation not received. Aborted." returns or raises
\* (bot.py:322).
AbortReplied(i, r) ==
    /\ running
    /\ i \in DOMAIN cd_tasks /\ cd_tasks[i].pc = "abort_reply"
    /\ cd_tasks' = [cd_tasks EXCEPT ![i].pc = "done"]
    /\ last_cevent' = IF r = "ok"
                      THEN CEvent("abort", i, "None", "None", NoText, "Reported")
                      ELSE IoCEvent(i)
    /\ UNCHANGED <<running, cd_clock>>
    /\ UNCHANGED <<is_paused, now, mention_strikes, last_msg, scen, window_start,
                   msg_tasks>>
    /\ UNCHANGED <<pollVars, ticketVars>>

\* Time passes.  A timeout fires when it is due: the clock does not go past
\* the deadline of a wait_for that is still waiting.
ShutdownTick ==
    /\ running
    /\ cd_clock + TickSeconds <= MaxTicks * TickSeconds
    /\ \A i \in DOMAIN cd_tasks :
          cd_tasks[i].pc = "wait" => cd_tasks[i].deadline >= cd_clock + TickSeconds
    /\ cd_clock' = cd_clock + TickSeconds
    /\ last_cevent' = CEvent("tick", 0, "None", "None", NoText, "none")
    /\ UNCHANGED <<running, cd_tasks>>
    /\ UNCHANGED <<is_paused, now, mention_strikes, last_msg, scen, window_start,
                   msg_tasks>>
    /\ UNCHANGED <<pollVars, ticketVars>>

ShutdownInit ==
    /\ running = TRUE
    /\ cd_clock = 0
    /\ cd_tasks = <<>>
    /\ last_cevent = NoCEvent

ShutdownNext ==
    \/ \E author \in Users, channel \in Channels : CodeDelete(author, channel)
    \/ \E i \in 1 .. MaxInvocations, r \in CallResults : PromptReplied(i, r)
    \/ \E author \in Users, channel \in Channels, text \in Texts :
          MessageEvent(author, channel, text)
    \/ \E i \in 1 .. MaxInvocations : WaitTimeout(i)
    \/ \E i \in 1 .. MaxInvocations, r \in CallResults : ConfirmReplied(i, r)
    \/ \E i \in 1 .. MaxInvocations, r \in CallResults : BotClosed(i, r)
    \/ \E i \in 1 .. MaxInvocations, r \in CallResults : AbortReplied(i, r)
    \/ ShutdownTick

----------------------------------------------------------------------------
(* Poll system *)

\* Bound of the model: the coroutines suspended on platform I/O at one time.
MaxInFlight == 2

\* The handlers address one poll dict at a time, by its id.
PollIds == {1}

\* The numbers of non-empty options given to /poll: one too few, and two.
OptionCounts == {1, 2}

\* The option indices a button interaction may carry: those of a two-option
\* poll and the index one past the last.
VoteIndices == 0 .. 2

VoterRoles == {"None", "R"}

\* poll_cmd takes option1 .. option10.
OPTION_PARAMS == 10

DictGet(d, k, default) == IF k \in DOMAIN d THEN d[k] ELSE default

\* The dict poll_cmd builds (bot.py:587-601), as far as the handlers read it.
NewPoll(noptions, voter_role) ==
    [noptions |-> noptions, votes |-> EmptyDict, voters |-> EmptyDict,
     ended |-> FALSE, voter_role_id |-> voter_role]

\* A coroutine suspended at an await: which handler, where, on which poll.
PollTask(kind, pc, pid) == [kind |-> kind, pc |-> pc, poll |-> pid]

\* The coroutines of the poll system that are suspended: those waiting for
\* platform I/O and the auto_close coroutines in their sleep.
InFlight ==
    BagCardinality(poll_tasks)
      + Cardinality({pid \in DOMAIN timers : timers[pid] = "sleeping"})

Spawn(t) == poll_tasks (+) SetToBag({t})

Resume(t, t2) == (poll_tasks (-) SetToBag({t})) (+) SetToBag({t2})

Finish(t) == poll_tasks (-) SetToBag({t})

Suspended(t) == BagIn(t, poll_tasks)

Incr(counter, pid) == [counter EXCEPT ![pid] = @ + 1]

\* What the last step was: the handler (op), its arguments and its answer.
\* A step that resumes a suspended coroutine is recorded as op "io".
Event(op, pid, user, idx, result) ==
    [op |-> op, poll |-> pid, user |-> user, idx |-> idx, result |-> result,
     lacks_role |-> FALSE]

\* The handling of a vote; lacks_role tells that the voter role gate was
\* reached by a member who does not hold the poll's voter role.
VoteEvent(pid, user, idx, result, lacks_role) ==
    [Event("vote", pid, user, idx, result) EXCEPT !.lacks_role = lacks_role]

NoEvent == Event("none", 0, "None", 0, "none")

IoEvent == Event("io", 0, "None", 0, "none")

\* poll_cmd up to its first await (interaction.response.defer).  The poll dict
\* is local to the coroutine until it is registered; it is kept in polls from
\* here on, and only active_polls makes it reachable by the other handlers.
\* poll_cmd: the number of non-empty options passes the checks (bot.py:577-582).
OptionCountValidNoMinimum(noptions) == ~(noptions > 10)

OptionCountValid(noptions) == ~(noptions < 2) /\ ~(noptions > 10)

\* For op "poll" the idx of the event is the number of options given.
PollCmd(pid, noptions, voter_role) ==
    /\ pid \notin DOMAIN polls
    /\ IF ~OptionCountValid(noptions)
       THEN /\ last_event' = Event("poll", pid, "None", noptions, "InvalidOptionCount")
            /\ UNCHANGED <<polls, poll_tasks>>
       ELSE /\ InFlight < MaxInFlight
            /\ polls' = DictSet(polls, pid, NewPoll(noptions, voter_role))
            /\ poll_tasks' = Spawn(PollTask("poll_cmd", "defer", pid))
            /\ last_event' = Event("poll", pid, "None", noptions, "Creating")
    /\ UNCHANGED <<active_polls, poll_msgs, timers, close_runs, final_renders>>
    /\ UNCHANGED <<is_paused, strikeVars, vscen, ticketVars>>

\* interaction.response.defer returns (bot.py:584); followup.send is issued.
PollCmdDeferred(pid, ok) ==
    /\ Suspended(PollTask("poll_cmd", "defer", pid))
    /\ poll_tasks' = IF ok
                     THEN Resume(PollTask("poll_cmd", "defer", pid),
                                 PollTask("poll_cmd", "send", pid))
                     ELSE Finish(PollTask("poll_cmd", "defer", pid))
    /\ UNCHANGED <<polls, active_polls, poll_msgs, timers,
                   close_runs, final_renders>>
    /\ UNCHANGED <<is_paused, strikeVars, vscen, ticketVars>>
    /\ last_event' = IoEvent

\* The platform posts the poll message with enabled buttons (bot.py:604); the
\* coroutine is still suspended in followup.send.
PollCmdPosted(pid, ok) ==
    /\ Suspended(PollTask("poll_cmd", "send", pid))
    /\ IF ok
       THEN /\ poll_msgs' = DictSet(poll_msgs, pid, "open")
            /\ poll_tasks' = Resume(PollTask("poll_cmd", "send", pid),
                                    PollTask("poll_cmd", "posted", pid))
       ELSE /\ poll_tasks' = Finish(PollTask("poll_cmd", "send", pid))
            /\ UNCHANGED poll_msgs
    /\ UNCHANGED <<polls, active_polls, timers, close_runs,
                   final_renders>>
    /\ UNCHANGED <<is_paused, strikeVars, vscen, ticketVars>>
    /\ last_event' = IoEvent

\* followup.send returns: the poll is registered and auto_close is scheduled
\* (bot.py:605-615).
PollCmdRegister(pid) ==
    /\ Suspended(PollTask("poll_cmd", "posted", pid))
    /\ active_polls' = active_polls \cup {pid}
    /\ timers' = DictSet(timers, pid, "sleeping")
    /\ poll_tasks' = Finish(PollTask("poll_cmd", "posted", pid))
    /\ UNCHANGED <<polls, poll_msgs, close_runs, final_renders>>
    /\ UNCHANGED <<is_paused, strikeVars, vscen, ticketVars>>
    /\ last_event' = IoEvent

\* on_interaction: what the handler answers to a click on button idx of poll
\* pid by user (bot.py:662-698).  parses: int(idx_str) succeeds.
VoteResultNoRoleGate(user, pid, idx, parses, has_role) ==
    IF is_paused /\ user # MASTER_USER_ID THEN "Paused"
    ELSE IF pid \notin active_polls THEN "PollNotFound"
    ELSE IF polls[pid].ended THEN "PollEnded"
    ELSE IF ~parses THEN "Ignored"
    ELSE IF HasKey(polls[pid].voters, user) /\ polls[pid].voters[user] = idx
         THEN "AlreadyVotedSameOption"
    ELSE "Voted"

\* on_interaction: the voter role gate is reached (the poll is live and has a
\* voter role) by a member who does not hold that role (bot.py:676-685).
LacksVoterRole(user, pid, has_role) ==
    /\ ~(is_paused /\ user # MASTER_USER_ID)
    /\ pid \in active_polls
    /\ ~polls[pid].ended
    /\ polls[pid].voter_role_id # "None"
    /\ ~has_role

VoteResultNoSameCheck(user, pid, idx, parses, has_role) ==
    IF is_paused /\ user # MASTER_USER_ID THEN "Paused"
    ELSE IF pid \notin active_polls THEN "PollNotFound"
    ELSE IF polls[pid].ended THEN "PollEnded"
    ELSE IF polls[pid].voter_role_id # "None" /\ ~has_role THEN "NotEligibleToVote"
    ELSE IF ~parses THEN "Ignored"
    ELSE "Voted"

VoteResultNoEndedCheck(user, pid, idx, parses, has_role) ==
    IF is_paused /\ user # MASTER_USER_ID THEN "Paused"
    ELSE IF pid \notin active_polls THEN "PollNotFound"
    ELSE IF polls[pid].voter_role_id # "None" /\ ~has_role THEN "NotEligibleToVote"
    ELSE IF ~parses THEN "Ignored"
    ELSE IF HasKey(polls[pid].voters, user) /\ polls[pid].voters[user] = idx
         THEN "AlreadyVotedSameOption"
    ELSE "Voted"

VoteResultNoPauseGate(user, pid, idx, parses, has_role) ==
    IF pid \notin active_polls THEN "PollNotFound"
    ELSE IF polls[pid].ended THEN "PollEnded"
    ELSE IF polls[pid].voter_role_id # "None" /\ ~has_role THEN "NotEligibleToVote"
    ELSE IF ~parses THEN "Ignored"
    ELSE IF HasKey(polls[pid].voters, user) /\ polls[pid].voters[user] = idx
         THEN "AlreadyVotedSameOption"
    ELSE "Voted"

VoteResult(user, pid, idx, parses, has_role) ==
    IF is_paused /\ user # MASTER_USER_ID THEN "Paused"
    ELSE IF pid \notin active_polls THEN "PollNotFound"
    ELSE IF polls[pid].ended THEN "PollEnded"
    ELSE IF polls[pid].voter_role_id # "None" /\ ~has_role THEN "NotEligibleToVote"
    ELSE IF ~parses THEN "Ignored"
    ELSE IF HasKey(polls[pid].voters, user) /\ polls[pid].voters[user] = idx
         THEN "AlreadyVotedSameOption"
    ELSE "Voted"

\* on_interaction, "adjust tallies" (bot.py:699-703).
ApplyVoteAdditive(p, user, idx) ==
    [p EXCEPT !.votes = DictSet(p.votes, idx, DictGet(p.votes, idx, 0) + 1),
              !.voters = DictSet(p.voters, user, idx)]

ApplyVoteKeepsVoter(p, user, idx) ==
    LET dec == IF HasKey(p.voters, user)
               THEN DictSet(p.votes, p.voters[user],
                            Max(0, DictGet(p.votes, p.voters[user], 1) - 1))
               ELSE p.votes
    IN  [p EXCEPT !.votes = DictSet(dec, idx, DictGet(dec, idx, 0) + 1),
                  !.voters = IF HasKey(p.voters, user) THEN p.voters
                             ELSE DictSet(p.voters, user, idx)]

ApplyVote(p, user, idx) ==
    LET dec == IF HasKey(p.voters, user)
               THEN DictSet(p.votes, p.voters[user],
                            Max(0, DictGet(p.votes, p.voters[user], 1) - 1))
               ELSE p.votes
    IN  [p EXCEPT !.votes = DictSet(dec, idx, DictGet(dec, idx, 0) + 1),
                  !.voters = DictSet(p.voters, user, idx)]

\* History of the scenario "A votes 0; B votes 1; A switches to 1".
VoteScript == << <<"A", 0>>, <<"B", 1>>, <<"A", 1>> >>

VScenNext(user, idx) ==
    IF vscen >= 0 /\ vscen < Len(VoteScript) /\ VoteScript[vscen + 1] = <<user, idx>>
    THEN vscen + 1
    ELSE -1

\* on_interaction for a component interaction whose custom_id is
\* poll_<pid>_<idx>, up to its first await.  A vote that is applied leaves the
\* coroutine suspended in fetch_message for the live update when
\* guild.get_channel resolves the poll's channel (chan_ok); when it gives
\* None, ch.fetch_message raises before anything is awaited, the failure is
\* swallowed (bot.py:712) and there is no live update.
OnInteraction(user, pid, idx, parses, has_role, chan_ok) ==
    LET result == VoteResult(user, pid, idx, parses, has_role)
    IN  /\ pid \in DOMAIN poll_msgs
        /\ idx \in 0 .. polls[pid].noptions
        /\ last_event' = VoteEvent(pid, user, idx, result,
                                   LacksVoterRole(user, pid, has_role))
        /\ IF result = "Voted"
           THEN /\ chan_ok => InFlight < MaxInFlight
                /\ polls' = [polls EXCEPT ![pid] = ApplyVote(@, user, idx)]
                /\ poll_tasks' = IF chan_ok
                                 THEN Spawn(PollTask("vote", "fetch", pid))
                                 ELSE poll_tasks
                /\ vscen' = VScenNext(user, idx)
           ELSE UNCHANGED <<polls, poll_tasks, vscen>>
        /\ UNCHANGED <<active_polls, poll_msgs, timers, close_runs,
                       final_renders>>
        /\ UNCHANGED <<is_paused, strikeVars, ticketVars>>

\* fetch_message returns to the voting coroutine (bot.py:708); on success the
\* live embed is built and msg.edit is issued.
VoteFetched(pid, ok) ==
    /\ Suspended(PollTask("vote", "fetch", pid))
    /\ poll_tasks' = IF ok
                     THEN Resume(PollTask("vote", "fetch", pid), PollTask("vote", "edit", pid))
                     ELSE Finish(PollTask("vote", "fetch", pid))
    /\ UNCHANGED <<polls, active_polls, poll_msgs, timers,
                   close_runs, final_renders>>
    /\ UNCHANGED <<is_paused, strikeVars, vscen, ticketVars>>
    /\ last_event' = IoEvent

\* msg.edit of the live update takes effect (bot.py:711): open embed, enabled
\* buttons.
VoteEdited(pid, ok) ==
    /\ Suspended(PollTask("vote", "edit", pid))
    /\ poll_tasks' = Finish(PollTask("vote", "edit", pid))
    /\ poll_msgs' = IF ok THEN DictSet(poll_msgs, pid, "open") ELSE poll_msgs
    /\ UNCHANGED <<polls, active_polls, timers, close_runs,
                   final_renders>>
    /\ UNCHANGED <<is_paused, strikeVars, vscen, ticketVars>>
    /\ last_event' = IoEvent

\* /closepoll up to its first await: the lookup, the voter-role override and
\* interaction.response.defer (bot.py:647-654).
ClosePollLookup(pid) == pid \in active_polls

\* The voter-role override of /closepoll (bot.py:652-653), placed after the
\* early return of the failed lookup: `found` is the lookup's outcome.
VoterRoleOverrideBeforeLookup(p, found, voterrole) ==
    IF voterrole # "None" THEN [p EXCEPT !.voter_role_id = voterrole] ELSE p

VoterRoleOverride(p, found, voterrole) ==
    IF found /\ voterrole # "None"
    THEN [p EXCEPT !.voter_role_id = voterrole]
    ELSE p

ClosePollCmd(pid, voterrole) ==
    /\ polls' = IF pid \in DOMAIN polls
                THEN [polls EXCEPT
                        ![pid] = VoterRoleOverride(@, ClosePollLookup(pid),
                                                   voterrole)]
                ELSE polls
    /\ IF ~ClosePollLookup(pid)
       THEN /\ last_event' = Event("closepoll", pid, "None", 0, "NotFound")
            /\ UNCHANGED poll_tasks
       ELSE /\ InFlight < MaxInFlight
            /\ poll_tasks' = Spawn(PollTask("closepoll", "defer", pid))
            /\ last_event' = Event("closepoll", pid, "None", 0, "Accepted")
    /\ UNCHANGED <<active_polls, poll_msgs, timers, close_runs, final_renders>>
    /\ UNCHANGED <<is_paused, strikeVars, vscen, ticketVars>>

\* close_poll_internal up to its first await (bot.py:620-627), entered by the
\* coroutine that is task `from` (or by a coroutine that was not suspended,
\* when from_suspended is FALSE): ended is set, and with no text channel the
\* poll is evicted at once.
EnterCloseKeepsPollWithoutChannel(kind, pid, chan_ok, from_suspended, from) ==
    LET rest == IF from_suspended THEN poll_tasks (-) SetToBag({from}) ELSE poll_tasks
    IN  /\ polls' = [polls EXCEPT ![pid].ended = TRUE]
        /\ close_runs' = Incr(close_runs, pid)
        /\ UNCHANGED active_polls
        /\ poll_tasks' = IF chan_ok
                         THEN rest (+) SetToBag({PollTask(kind, "fetch", pid)})
                         ELSE rest

EnterClose(kind, pid, chan_ok, from_suspended, from) ==
    LET rest == IF from_suspended THEN poll_tasks (-) SetToBag({from}) ELSE poll_tasks
    IN  /\ polls' = [polls EXCEPT ![pid].ended = TRUE]
        /\ close_runs' = Incr(close_runs, pid)
        /\ IF chan_ok
           THEN /\ poll_tasks' = rest (+) SetToBag({PollTask(kind, "fetch", pid)})
                /\ UNCHANGED active_polls
           ELSE /\ poll_tasks' = rest
                /\ active_polls' = active_polls \ {pid}

\* defer returns to /closepoll, which calls close_poll_internal (bot.py:654-655).
ClosePollDeferred(pid, ok, chan_ok) ==
    /\ Suspended(PollTask("closepoll", "defer", pid))
    /\ IF ok
       THEN EnterClose("closepoll", pid, chan_ok, TRUE, PollTask("closepoll", "defer", pid))
       ELSE /\ poll_tasks' = Finish(PollTask("closepoll", "defer", pid))
            /\ UNCHANGED <<polls, active_polls, close_runs>>
    /\ UNCHANGED <<poll_msgs, timers, final_renders>>
    /\ UNCHANGED <<is_paused, strikeVars, vscen, ticketVars>>
    /\ last_event' = IoEvent

\* auto_close wakes from its sleep (bot.py:610-614).  The coroutine is
\* counted by InFlight since the poll was registered.
AutoCloseGuardNoEndedCheck(pid) == pid \in active_polls

AutoCloseGuard(pid) == pid \in active_polls /\ ~polls[pid].ended

AutoCloseFire(pid, chan_ok) ==
    /\ HasKey(timers, pid) /\ timers[pid] = "sleeping"
    /\ timers' = [timers EXCEPT ![pid] = "done"]
    /\ IF AutoCloseGuard(pid)
       THEN /\ EnterClose("auto_close", pid, chan_ok, FALSE, PollTask("auto_close", "none", pid))
            /\ last_event' = Event("auto_close", pid, "None", 0, "Closing")
       ELSE /\ UNCHANGED <<polls, active_polls, poll_tasks, close_runs>>
            /\ last_event' = Event("auto_close", pid, "None", 0, "Noop")
    /\ UNCHANGED <<poll_msgs, final_renders>>
    /\ UNCHANGED <<is_paused, strikeVars, vscen, ticketVars>>

\* fetch_message returns to close_poll_internal (bot.py:626-632): on failure
\* the poll is evicted, on success the final embed is built and msg.edit issued.
ActiveAfterFetchKeepsOnFailure(active, pid, ok) == active

ActiveAfterFetch(active, pid, ok) == IF ok THEN active ELSE active \ {pid}

CloseFetched(kind, pid, ok) ==
    /\ Suspended(PollTask(kind, "fetch", pid))
    /\ poll_tasks' = IF ok
                     THEN Resume(PollTask(kind, "fetch", pid), PollTask(kind, "edit", pid))
                     ELSE Finish(PollTask(kind, "fetch", pid))
    /\ active_polls' = ActiveAfterFetch(active_polls, pid, ok)
    /\ UNCHANGED <<polls, poll_msgs, timers, close_runs,
                   final_renders>>
    /\ UNCHANGED <<is_paused, strikeVars, vscen, ticketVars>>
    /\ last_event' = IoEvent

\* msg.edit of the final render takes effect (closed embed, disabled buttons)
\* or fails; either way the poll is evicted (bot.py:633-637).
CloseEdited(kind, pid, ok) ==
    /\ Suspended(PollTask(kind, "edit", pid))
    /\ poll_tasks' = Finish(PollTask(kind, "edit", pid))
    /\ IF ok
       THEN /\ poll_msgs' = DictSet(poll_msgs, pid, "closed")
            /\ final_renders' = Incr(final_renders, pid)
       ELSE UNCHANGED <<poll_msgs, final_renders>>
    /\ active_polls' = active_polls \ {pid}
    /\ UNCHANGED <<polls, timers, close_runs>>
    /\ UNCHANGED <<is_paused, strikeVars, vscen, ticketVars>>
    /\ last_event' = IoEvent

CloseKinds == {"closepoll", "auto_close"}

PollInit ==
    /\ polls = EmptyDict
    /\ active_polls = {}
    /\ poll_msgs = EmptyDict
    /\ timers = EmptyDict
    /\ poll_tasks = EmptyBag
    /\ last_event = NoEvent
    /\ close_runs = [pid \in PollIds |-> 0]
    /\ final_renders = [pid \in PollIds |-> 0]
    /\ vscen = 0

PollNext ==
    \/ \E pid \in PollIds, n \in OptionCounts, role \in VoterRoles : PollCmd(pid, n, role)
    \/ \E pid \in PollIds, ok \in BOOLEAN : PollCmdDeferred(pid, ok)
    \/ \E pid \in PollIds, ok \in BOOLEAN : PollCmdPosted(pid, ok)
    \/ \E pid \in PollIds : PollCmdRegister(pid)
    \/ \E user \in Users, pid \in PollIds, idx \in VoteIndices,
          parses \in BOOLEAN, has_role \in BOOLEAN, chan_ok \in BOOLEAN :
          OnInteraction(user, pid, idx, parses, has_role, chan_ok)
    \/ \E pid \in PollIds, ok \in BOOLEAN : VoteFetched(pid, ok)
    \/ \E pid \in PollIds, ok \in BOOLEAN : VoteEdited(pid, ok)
    \/ \E pid \in PollIds, role \in VoterRoles : ClosePollCmd(pid, role)
    \/ \E pid \in PollIds, ok \in BOOLEAN, chan_ok \in BOOLEAN : ClosePollDeferred(pid, ok, chan_ok)
    \/ \E pid \in PollIds, chan_ok \in BOOLEAN : AutoCloseFire(pid, chan_ok)
    \/ \E kind \in CloseKinds, pid \in PollIds, ok \in BOOLEAN : CloseFetched(kind, pid, ok)
    \/ \E kind \in CloseKinds, pid \in PollIds, ok \in BOOLEAN : CloseEdited(kind, pid, ok)

----------------------------------------------------------------------------
(* Ticket system *)

\* Bound of the model: the close requests made on one ticket.
MaxCloses == 2

ROLE_INTERNAL_AFFAIRS == "ROLE_INTERNAL_AFFAIRS"

ROLE_MGMT == "ROLE_MGMT"

ROLE_DIRECTORSHIP == "ROLE_DIRECTORSHIP"

ROLE_ALT == "ROLE_ALT"

\* The keys of TICKET_OPTIONS (bot.py:60-109).
TICKET_OPTIONS == {"management", "department", "developers", "ia", "partnership", "support"}

\* The role sets a member may hold when clicking Claim.
RoleSets ==
    { {"OTHER"}, {ROLE_INTERNAL_AFFAIRS}, {ROLE_MGMT}, {ROLE_INTERNAL_AFFAIRS, ROLE_ALT} }

\* The dropdown values submitted: a key Internal Affairs may claim, a key it
\* may not, and a value that is no key of TICKET_OPTIONS.
SelectedKeys == {"ia", "developers", "bogus"}

TicketIds == {1}

\* TicketControls._can_claim
can_claimIAEverywhere(ticket_key, roles) ==
    LET has_all == roles \cap {ROLE_MGMT, ROLE_DIRECTORSHIP, ROLE_ALT} # {}
    IN  has_all \/ ROLE_INTERNAL_AFFAIRS \in roles

can_claim(ticket_key, roles) ==
    LET has_all == roles \cap {ROLE_MGMT, ROLE_DIRECTORSHIP, ROLE_ALT} # {}
    IN  IF has_all THEN TRUE
        ELSE IF ticket_key \in {"ia", "support", "department"}
             THEN ROLE_INTERNAL_AFFAIRS \in roles
        ELSE IF ticket_key = "management"
             THEN ROLE_MGMT \in roles \/ ROLE_DIRECTORSHIP \in roles \/ ROLE_ALT \in roles
        ELSE IF ticket_key \in {"developers", "partnership"}
             THEN has_all
        ELSE FALSE

\* TicketControls.__init__
TicketControlsPreclaimed(ticket_key, opener_id) ==
    [ticket_key |-> ticket_key, opener_id |-> opener_id, claimed_by |-> opener_id]

TicketControls(ticket_key, opener_id) ==
    [ticket_key |-> ticket_key, opener_id |-> opener_id, claimed_by |-> "None"]

\* A coroutine of the ticket system suspended at an await.  key and user are
\* the locals of TicketDropdown.callback, opener that of
\* close_ticket_with_transcript.
TicketTask(kind, pc, tid, key, user, opener) ==
    [kind |-> kind, pc |-> pc, ticket |-> tid, key |-> key, user |-> user, opener |-> opener]

CloseTask(pc, tid, opener) == TicketTask("close", pc, tid, "None", "None", opener)

TSpawn(t) == ticket_tasks (+) SetToBag({t})

TResume(t, t2) == (ticket_tasks (-) SetToBag({t})) (+) SetToBag({t2})

TFinish(t) == ticket_tasks (-) SetToBag({t})

ClaimEvent(tid, user, roles, result) ==
    [op |-> "claim", ticket |-> tid, user |-> user, roles |-> roles, result |-> result]

TEvent(op, tid, user, result) ==
    [op |-> op, ticket |-> tid, user |-> user, roles |-> {}, result |-> result]

NoTEvent == TEvent("none", 0, "None", "none")

IoTEvent == TEvent("io", 0, "None", "none")

ChannelAlive(tid) == HasKey(channels, tid) /\ channels[tid] = "alive"

\* TicketDropdown.callback up to its first await (bot.py:744-750).
TicketSelect(tid, user, key) ==
    /\ tid \notin DOMAIN channels
    /\ \A t \in BagToSet(ticket_tasks) : ~(t.kind = "open" /\ t.ticket = tid)
    /\ IF key \notin TICKET_OPTIONS
       THEN /\ last_tevent' = TEvent("open", tid, user, "InvalidCategory")
            /\ UNCHANGED ticket_tasks
       ELSE /\ last_tevent' = TEvent("open", tid, user, "Opening")
            /\ ticket_tasks' = TSpawn(TicketTask("open", "defer", tid, key, user, "None"))
    /\ UNCHANGED <<tickets, channels, chan_first, claims_won, close_reqs,
                   captures, archives, notifies>>
    /\ UNCHANGED <<is_paused, strikeVars, pollVars>>

\* defer returns; the destination category is looked up and
\* create_text_channel is issued (bot.py:750-774).
TicketDeferred(t, ok, category_ok) ==
    /\ BagIn(t, ticket_tasks) /\ t.kind = "open" /\ t.pc = "defer"
    /\ ticket_tasks' = IF ok /\ category_ok
                       THEN TResume(t, [t EXCEPT !.pc = "create"])
                       ELSE TFinish(t)
    /\ last_tevent' = IF ok /\ ~category_ok
                      THEN TEvent("open", t.ticket, t.user, "CategoryMissing")
                      ELSE IoTEvent
    /\ UNCHANGED <<tickets, channels, chan_first, claims_won, close_reqs,
                   captures, archives, notifies>>
    /\ UNCHANGED <<is_paused, strikeVars, pollVars>>

\* create_text_channel returns (bot.py:773-789): on success the greeting with
\* the TicketControls view is sent.
TicketCreated(t, ok) ==
    /\ BagIn(t, ticket_tasks) /\ t.kind = "open" /\ t.pc = "create"
    /\ IF ok
       THEN /\ channels' = DictSet(channels, t.ticket, "alive")
            /\ chan_first' = DictSet(chan_first, t.ticket, "None")
            /\ ticket_tasks' = TResume(t, [t EXCEPT !.pc = "send"])
            /\ last_tevent' = IoTEvent
       ELSE /\ ticket_tasks' = TFinish(t)
            /\ last_tevent' = TEvent("open", t.ticket, t.user, "SurfaceCreationFailed")
            /\ UNCHANGED <<channels, chan_first>>
    /\ UNCHANGED <<tickets, claims_won, close_reqs, captures, archives,
                   notifies>>
    /\ UNCHANGED <<is_paused, strikeVars, pollVars>>

\* ch.send returns (bot.py:789): on success the view is live and its buttons
\* can be clicked.
TicketSent(t, ok) ==
    /\ BagIn(t, ticket_tasks) /\ t.kind = "open" /\ t.pc = "send"
    /\ ticket_tasks' = TFinish(t)
    /\ tickets' = IF ok
                  THEN DictSet(tickets, t.ticket, TicketControls(t.key, t.user))
                  ELSE tickets
    /\ last_tevent' = IoTEvent
    /\ UNCHANGED <<channels, chan_first, claims_won, close_reqs, captures,
                   archives, notifies>>
    /\ UNCHANGED <<is_paused, strikeVars, pollVars>>

\* A member posts an ordinary message in the ticket channel; the platform
\* keeps the oldest one as the first entry of the channel history.
PostMessage(tid, user) ==
    /\ ChannelAlive(tid)
    /\ chan_first[tid] = "None"
    /\ chan_first' = [chan_first EXCEPT ![tid] = user]
    /\ last_tevent' = TEvent("post", tid, user, "none")
    /\ UNCHANGED <<tickets, channels, ticket_tasks, claims_won, close_reqs,
                   captures, archives, notifies>>
    /\ UNCHANGED <<is_paused, strikeVars, pollVars>>

\* TicketControls.claim: what the handler answers (bot.py:814-821).
ClaimResultNoClaimedCheck(t, is_member, roles) ==
    IF ~is_member \/ ~can_claim(t.ticket_key, roles) THEN "NotEligible"
    ELSE "Claimed"

ClaimResult(t, is_member, roles) ==
    IF ~is_member \/ ~can_claim(t.ticket_key, roles) THEN "NotEligible"
    ELSE IF t.claimed_by # "None" THEN "AlreadyClaimed"
    ELSE "Claimed"

\* TicketControls.claim (bot.py:813-822).
Claim(tid, user, is_member, roles) ==
    LET result == ClaimResult(tickets[tid], is_member, roles)
    IN  /\ HasKey(tickets, tid)
        /\ ChannelAlive(tid)
        /\ last_tevent' = ClaimEvent(tid, IF result = "Claimed" THEN user ELSE "None",
                                     IF is_member THEN roles ELSE {}, result)
        /\ IF result = "Claimed"
           THEN /\ tickets' = [tickets EXCEPT ![tid].claimed_by = user]
                /\ claims_won' = [claims_won EXCEPT ![tid] = @ + 1]
           ELSE UNCHANGED <<tickets, claims_won>>
        /\ UNCHANGED <<channels, chan_first, ticket_tasks, close_reqs, captures, archives,
                       notifies>>
        /\ UNCHANGED <<is_paused, strikeVars, pollVars>>

\* TicketControls.close up to its first await (bot.py:825-827).
CloseClick(tid, user) ==
    /\ HasKey(tickets, tid)
    /\ ChannelAlive(tid)
    /\ close_reqs[tid] < MaxCloses
    /\ close_reqs' = [close_reqs EXCEPT ![tid] = @ + 1]
    /\ ticket_tasks' = TSpawn(CloseTask("defer", tid, "None"))
    /\ last_tevent' = TEvent("close", tid, user, "Closing")
    /\ UNCHANGED <<tickets, channels, chan_first, claims_won, captures,
                   archives, notifies>>
    /\ UNCHANGED <<is_paused, strikeVars, pollVars>>

\* TicketControls.close_with_reason: the modal is shown (bot.py:831-833).
CloseWithReasonClick(tid, user) ==
    /\ HasKey(tickets, tid)
    /\ ChannelAlive(tid)
    /\ close_reqs[tid] < MaxCloses
    /\ close_reqs' = [close_reqs EXCEPT ![tid] = @ + 1]
    /\ ticket_tasks' = TSpawn(TicketTask("modal", "open", tid, "None", "None", "None"))
    /\ last_tevent' = TEvent("close_with_reason", tid, user, "Modal")
    /\ UNCHANGED <<tickets, channels, chan_first, claims_won, captures,
                   archives, notifies>>
    /\ UNCHANGED <<is_paused, strikeVars, pollVars>>

\* CloseReasonModal.on_submit up to its first await (bot.py:842-843), or the
\* modal is dismissed.  The modal keeps the channel it was opened for.
ModalSubmit(t, submitted) ==
    /\ BagIn(t, ticket_tasks) /\ t.kind = "modal"
    /\ ticket_tasks' = IF submitted
                       THEN TResume(t, CloseTask("defer", t.ticket, "None"))
                       ELSE TFinish(t)
    /\ last_tevent' = TEvent("modal_submit", t.ticket, "None",
                             IF submitted THEN "Closing" ELSE "Dismissed")
    /\ UNCHANGED <<tickets, channels, chan_first, claims_won, close_reqs,
                   captures, archives, notifies>>
    /\ UNCHANGED <<is_paused, strikeVars, pollVars>>

\* close_ticket_with_transcript: the await a close goes to after the one at pc
\* returned (ok) or raised, every exception being swallowed (bot.py:857-910).
\* found tells whether the transcripts category (at "history") or the opener
\* (at "history2") was found.
NextClosePcAbortOnFailure(pc, ok, found) ==
    IF ~ok THEN "aborted"
    ELSE CASE pc = "history" -> IF found THEN "tcreate" ELSE "history2"
           [] pc = "tcreate" -> "tsend"
           [] pc = "tsend" -> "history2"
           [] pc = "history2" -> IF found THEN "dm" ELSE "delete"
           [] pc = "dm" -> "delete"

NextClosePc(pc, ok, found) ==
    CASE pc = "history" -> IF found THEN "tcreate" ELSE "history2"
      [] pc = "tcreate" -> IF ok THEN "tsend" ELSE "history2"
      [] pc = "tsend" -> "history2"
      [] pc = "history2" -> IF found THEN "dm" ELSE "delete"
      [] pc = "dm" -> "delete"

\* defer returns; close_ticket_with_transcript starts reading the history
\* (bot.py:846-858).
CloseDeferred(t, ok) ==
    /\ BagIn(t, ticket_tasks) /\ t.kind = "close" /\ t.pc = "defer"
    /\ ticket_tasks' = IF ok THEN TResume(t, [t EXCEPT !.pc = "history"]) ELSE TFinish(t)
    /\ last_tevent' = IoTEvent
    /\ UNCHANGED <<tickets, channels, chan_first, claims_won, close_reqs,
                   captures, archives, notifies>>
    /\ UNCHANGED <<is_paused, strikeVars, pollVars>>

\* channel.history returns or raises (bot.py:857-876): the transcript is
\* captured when it returns; then the transcript channel is created, when the
\* transcripts category exists.
CloseHistory(t, ok, category_ok) ==
    /\ BagIn(t, ticket_tasks) /\ t.kind = "close" /\ t.pc = "history"
    /\ IF ok /\ ChannelAlive(t.ticket)
       THEN /\ captures' = [captures EXCEPT ![t.ticket] = @ + 1]
            /\ last_tevent' = TEvent("capture", t.ticket, "None", "Captured")
       ELSE /\ UNCHANGED captures
            /\ last_tevent' = TEvent("capture", t.ticket, "None", "NotFound")
    /\ ticket_tasks' = TResume(t, [t EXCEPT !.pc =
                                      NextClosePc("history", ok /\ ChannelAlive(t.ticket),
                                                  category_ok)])
    /\ UNCHANGED <<tickets, channels, chan_first, claims_won, close_reqs,
                   archives, notifies>>
    /\ UNCHANGED <<is_paused, strikeVars, pollVars>>

\* create_text_channel of the transcript channel returns (bot.py:873-883).
CloseTCreated(t, ok) ==
    /\ BagIn(t, ticket_tasks) /\ t.kind = "close" /\ t.pc = "tcreate"
    /\ ticket_tasks' = TResume(t, [t EXCEPT !.pc = NextClosePc("tcreate", ok, TRUE)])
    /\ last_tevent' = IoTEvent
    /\ UNCHANGED <<tickets, channels, chan_first, claims_won, close_reqs,
                   captures, archives, notifies>>
    /\ UNCHANGED <<is_paused, strikeVars, pollVars>>

\* transcript_ch.send returns (bot.py:879-890): the archive is delivered when
\* it succeeds; then the history is read again to find the opener.
CloseTSent(t, ok) ==
    /\ BagIn(t, ticket_tasks) /\ t.kind = "close" /\ t.pc = "tsend"
    /\ ticket_tasks' = TResume(t, [t EXCEPT !.pc = NextClosePc("tsend", ok, TRUE)])
    /\ IF ok
       THEN /\ archives' = [archives EXCEPT ![t.ticket] = @ + 1]
            /\ last_tevent' = TEvent("archive", t.ticket, "None", "Delivered")
       ELSE /\ UNCHANGED archives
            /\ last_tevent' = IoTEvent
    /\ UNCHANGED <<tickets, channels, chan_first, claims_won, close_reqs,
                   captures, notifies>>
    /\ UNCHANGED <<is_paused, strikeVars, pollVars>>

\* The opener close_ticket_with_transcript finds (bot.py:888-895): the member
\* who wrote the first ordinary message of the channel that is not the bot's.
FoundOpener(tid, ok, is_member) ==
    IF ok /\ ChannelAlive(tid) /\ is_member THEN chan_first[tid] ELSE "None"

\* The second channel.history returns or raises (bot.py:889-908).
CloseHistory2(t, ok, is_member) ==
    /\ BagIn(t, ticket_tasks) /\ t.kind = "close" /\ t.pc = "history2"
    /\ LET opener == FoundOpener(t.ticket, ok, is_member)
       IN  ticket_tasks' = TResume(t, [t EXCEPT !.pc =
                                          NextClosePc("history2",
                                                      ok /\ ChannelAlive(t.ticket),
                                                      opener # "None"),
                                                !.opener = opener])
    /\ last_tevent' = IoTEvent
    /\ UNCHANGED <<tickets, channels, chan_first, claims_won, close_reqs,
                   captures, archives, notifies>>
    /\ UNCHANGED <<is_paused, strikeVars, pollVars>>

\* opener.send returns (bot.py:897-908).
CloseNotified(t, ok) ==
    /\ BagIn(t, ticket_tasks) /\ t.kind = "close" /\ t.pc = "dm"
    /\ ticket_tasks' = TResume(t, [t EXCEPT !.pc = NextClosePc("dm", ok, TRUE)])
    /\ IF ok
       THEN /\ notifies' = [notifies EXCEPT ![t.ticket] = @ + 1]
            /\ last_tevent' = TEvent("notify", t.ticket, t.opener, "Sent")
       ELSE /\ UNCHANGED notifies
            /\ last_tevent' = IoTEvent
    /\ UNCHANGED <<tickets, channels, chan_first, claims_won, close_reqs,
                   captures, archives>>
    /\ UNCHANGED <<is_paused, strikeVars, pollVars>>

\* channel.delete returns or raises (bot.py:907-910).
CloseDeleted(t, ok) ==
    /\ BagIn(t, ticket_tasks) /\ t.kind = "close" /\ t.pc = "delete"
    /\ ticket_tasks' = TFinish(t)
    /\ channels' = IF ok /\ ChannelAlive(t.ticket)
                   THEN [channels EXCEPT ![t.ticket] = "deleted"]
                   ELSE channels
    /\ last_tevent' = IoTEvent
    /\ UNCHANGED <<tickets, chan_first, claims_won, close_reqs, captures,
                   archives, notifies>>
    /\ UNCHANGED <<is_paused, strikeVars, pollVars>>

TicketInit ==
    /\ tickets = EmptyDict
    /\ channels = EmptyDict
    /\ chan_first = EmptyDict
    /\ ticket_tasks = EmptyBag
    /\ last_tevent = NoTEvent
    /\ claims_won = [tid \in TicketIds |-> 0]
    /\ close_reqs = [tid \in TicketIds |-> 0]
    /\ captures = [tid \in TicketIds |-> 0]
    /\ archives = [tid \in TicketIds |-> 0]
    /\ notifies = [tid \in TicketIds |-> 0]

TicketNext ==
    \/ \E tid \in TicketIds, user \in Users, key \in SelectedKeys :
          TicketSelect(tid, user, key)
    \/ \E t \in BagToSet(ticket_tasks), ok \in BOOLEAN, category_ok \in BOOLEAN :
          TicketDeferred(t, ok, category_ok)
    \/ \E t \in BagToSet(ticket_tasks), ok \in BOOLEAN : TicketCreated(t, ok)
    \/ \E t \in BagToSet(ticket_tasks), ok \in BOOLEAN : TicketSent(t, ok)
    \/ \E tid \in TicketIds, user \in Users : PostMessage(tid, user)
    \/ \E tid \in TicketIds, user \in Users, is_member \in BOOLEAN, roles \in RoleSets :
          Claim(tid, user, is_member, roles)
    \/ \E tid \in TicketIds, user \in Users : CloseClick(tid, user)
    \/ \E tid \in TicketIds, user \in Users : CloseWithReasonClick(tid, user)
    \/ \E t \in BagToSet(ticket_tasks), submitted \in BOOLEAN : ModalSubmit(t, submitted)
    \/ \E t \in BagToSet(ticket_tasks), ok \in BOOLEAN : CloseDeferred(t, ok)
    \/ \E t \in BagToSet(ticket_tasks), ok \in BOOLEAN, category_ok \in BOOLEAN :
          CloseHistory(t, ok, category_ok)
    \/ \E t \in BagToSet(ticket_tasks), ok \in BOOLEAN : CloseTCreated(t, ok)
    \/ \E t \in BagToSet(ticket_tasks), ok \in BOOLEAN : CloseTSent(t, ok)
    \/ \E t \in BagToSet(ticket_tasks), ok \in BOOLEAN, is_member \in BOOLEAN :
          CloseHistory2(t, ok, is_member)
    \/ \E t \in BagToSet(ticket_tasks), ok \in BOOLEAN : CloseNotified(t, ok)
    \/ \E t \in BagToSet(ticket_tasks), ok \in BOOLEAN : CloseDeleted(t, ok)

----------------------------------------------------------------------------
(* Specifications *)

Init == StrikeInit /\ ShutdownInit /\ PollInit /\ TicketInit

SpecStrikes == Init /\ [][StrikeNext]_vars

SpecLadder == Init /\ [][LadderNext]_vars

SpecShutdown == Init /\ [][ShutdownNext]_vars

SpecPoll == Init /\ [][PollNext]_vars

SpecTicket == Init /\ [][TicketNext]_vars

----------------------------------------------------------------------------
(* Claims on the escalation tracker, checked under SpecLadder *)

\* The step is an offense registered for user u: on_message has called
\* _reset_or_increment_strikes for a message of u.
OffenseStepOf(u) ==
    /\ mention_strikes' # mention_strikes
    /\ last_msg'.author = u
    /\ last_msg'.action = "registered"

\* The step is the return of an awaited platform call to a suspended run of
\* on_message: the run ends or moves on to its next await.
DeliveryStep ==
    /\ msg_tasks' # msg_tasks
    /\ BagCardinality(msg_tasks') <= BagCardinality(msg_tasks)

ExpectedLevels == <<1, 2, 3, 4, 5, 6, 1>>

\* C6: registerOffense returns 1 and stores {count = 1, windowResetAt = now + 24h}
\* when the user has no record or now >= windowResetAt (boundary included), and
\* otherwise increments count by 1 and returns the new count; offenses at
\* 0,1,2,3,4,5 hours give levels 1..6 and an offense at 25 hours gives level 1.
EscalationLevel ==
    /\ []((/\ scen >= 1
           /\ last_msg.author = ScenUser
           /\ last_msg.action = "registered")
            => last_msg.count = ExpectedLevels[scen])
    /\ [][\A u \in Users :
            OffenseStepOf(u) =>
              IF ~HasKey(mention_strikes, u) \/ now >= mention_strikes[u].reset_at
              THEN /\ last_msg'.count = 1
                   /\ mention_strikes'[u] = [count |-> 1, reset_at |-> now + 86400]
              ELSE /\ last_msg'.count = mention_strikes[u].count + 1
                   /\ mention_strikes'[u] = [count |-> mention_strikes[u].count + 1,
                                             reset_at |-> mention_strikes[u].reset_at]]_vars

\* The whole scenario of C6 has run: six offenses at 0..5h, then one at 25h,
\* which has just been registered.
EscalationLevelWitness ==
    /\ scen = Len(Scenario)
    /\ last_msg.author = ScenUser
    /\ last_msg.action = "registered"
    /\ last_msg.count = 1
    /\ now = 25 * 3600

LadderMinutes(level) ==
    IF level <= 1 THEN 0
    ELSE IF level >= 7 THEN 120
    ELSE <<5, 10, 20, 40, 80>>[level - 1]

\* C7: the action is Warn (0 minutes) when level <= 1 and otherwise a timeout of
\* min(120, 5 * 2^(level-2)) minutes: 5, 10, 20, 40, 80 for levels 2..6 and 120
\* for every level >= 7; no level yields more than 120 minutes.  The run of
\* on_message that registered level 1 waits for the warning reply, the run
\* that registered a higher level for the timeout and then its notice.
TimeoutLadder ==
    /\ \A level \in -1 .. MaxLevel :
          /\ timeout_minutes_for_count(level) = LadderMinutes(level)
          /\ timeout_minutes_for_count(level) <= 120
    /\ last_msg.count >= 1 =>
          /\ last_msg.minutes = LadderMinutes(last_msg.count)
          /\ last_msg.action \in {"warn", "warn_failed"} => last_msg.count = 1
          /\ last_msg.action \in {"timeout", "timeout_failed"} => last_msg.count >= 2
    /\ \A t \in BagToSet(msg_tasks) :
          /\ t.count >= 1
          /\ t.pc = "reply" <=> t.count = 1
          /\ t.pc \in {"timeout", "notice"} <=> t.count >= 2

\* A seventh offense inside one window, the first level at which the cap
\* binds: its timeout of 120 minutes has just been applied.
TimeoutLadderWitness ==
    /\ last_msg.count = 7
    /\ last_msg.minutes = 120
    /\ last_msg.action = "timeout"

----------------------------------------------------------------------------
(* Claims on the poll system, checked under SpecPoll *)

RECURSIVE SumOver(_, _)
SumOver(d, keys) ==
    IF keys = {} THEN 0
    ELSE LET k == CHOOSE x \in keys : TRUE
         IN  d[k] + SumOver(d, keys \ {k})

TallySum(p) == SumOver(p.votes, DOMAIN p.votes)

\* The step is the handling of a vote event by user u on poll pid.
VoteStepOf(u, pid) ==
    /\ last_event' # last_event
    /\ last_event'.op = "vote"
    /\ last_event'.user = u
    /\ last_event'.poll = pid

\* A close of poll pid is suspended on platform I/O inside close_poll_internal.
CloseSuspended(pid) ==
    \E t \in BagToSet(poll_tasks) :
        t.poll = pid /\ t.kind \in CloseKinds /\ t.pc \in {"fetch", "edit"}

\* C1: for every poll in the live store, after any sequence of vote events, the
\* sum of all tally counts equals the number of entries in voters, and every
\* tally count is >= 0.
PollTallyInvariant ==
    \A pid \in active_polls :
        /\ TallySum(polls[pid]) = Cardinality(DOMAIN polls[pid].voters)
        /\ \A k \in DOMAIN polls[pid].votes : polls[pid].votes[k] >= 0

\* Two users have voted, one of them switched away from an option (its count
\* fell back to 0), and the last step was a vote that was turned down.
PollTallyWitness ==
    \E pid \in active_polls :
        /\ Cardinality(DOMAIN polls[pid].voters) = 2
        /\ \E k \in DOMAIN polls[pid].votes : polls[pid].votes[k] = 0
        /\ last_event.op = "vote"
        /\ last_event.result = "AlreadyVotedSameOption"

\* C2: when a user whose current choice is option a votes for another option b
\* on an open poll, a's tally falls by exactly 1, b's rises by exactly 1, every
\* other tally and the total are unchanged and voters[user] becomes b; A votes
\* 0, B votes 1, A switches to 1 yields tally {0:0, 1:2}, voters {A:1, B:1}.
VoteSwitching ==
    /\ [](\A pid \in DOMAIN polls :
            vscen = Len(VoteScript) =>
              /\ polls[pid].votes = (0 :> 0) @@ (1 :> 2)
              /\ polls[pid].voters = ("A" :> 1) @@ ("B" :> 1))
    /\ [][\A u \in Users, pid \in DOMAIN polls :
            (/\ VoteStepOf(u, pid)
             /\ last_event'.result = "Voted"
             /\ HasKey(polls[pid].voters, u))
            => LET a == polls[pid].voters[u]
                   b == last_event'.idx
                   old == polls[pid].votes
                   new == polls'[pid].votes
               IN  /\ a # b
                   /\ new[a] = old[a] - 1
                   /\ new[b] = DictGet(old, b, 0) + 1
                   /\ DOMAIN new = DOMAIN old \cup {b}
                   /\ \A k \in DOMAIN new \ {a, b} : new[k] = old[k]
                   /\ TallySum(polls'[pid]) = TallySum(polls[pid])
                   /\ polls'[pid].voters = DictSet(polls[pid].voters, u, b)]_vars

\* The scenario of C2 has just run to its end.
VoteSwitchingWitness ==
    /\ vscen = Len(VoteScript)
    /\ last_event = Event("vote", 1, "A", 1, "Voted")
    /\ polls[1].votes[0] = 0

\* C3: voting for the option the user has already chosen is a no-op: the vote
\* reports AlreadyVotedSameOption, the poll's tally, voters and ended flag are
\* what they were, and no presentation update is issued.
SameOptionNoOp ==
    [][\A u \in Users, pid \in DOMAIN polls :
         (/\ VoteStepOf(u, pid)
          /\ HasKey(polls[pid].voters, u)
          /\ polls[pid].voters[u] = last_event'.idx)
         => /\ last_event'.result # "Voted"
            /\ (/\ pid \in active_polls
                /\ ~polls[pid].ended
                /\ polls[pid].voter_role_id = "None"
                /\ ~is_paused
                /\ last_event'.result # "Ignored")
               => last_event'.result = "AlreadyVotedSameOption"
            /\ polls' = polls
            /\ active_polls' = active_polls
            /\ poll_tasks' = poll_tasks
            /\ poll_msgs' = poll_msgs]_vars

\* B repeats its vote for option 1 on an open poll.
SameOptionNoOpWitness ==
    /\ last_event = Event("vote", 1, "B", 1, "AlreadyVotedSameOption")
    /\ 1 \in active_polls
    /\ polls[1].voters["B"] = 1
    /\ ~polls[1].ended

\* C4: the close sequence of a poll (final render + eviction) is executed at
\* most once, whatever the interleaving of /closepoll requests and auto_close.
PollCloseAtMostOnce ==
    \A pid \in PollIds : close_runs[pid] <= 1 /\ final_renders[pid] <= 1

\* C5: once a poll's ended flag is true, or the poll is not in the live store,
\* no vote event changes its tally or voters, and a vote on it is answered
\* PollEnded or PollNotFound; also while a close is suspended on platform I/O.
NoTallyMutationAfterClose ==
    [][\A pid \in DOMAIN polls :
         (polls[pid].ended \/ pid \notin active_polls)
         => /\ polls'[pid].votes = polls[pid].votes
            /\ polls'[pid].voters = polls[pid].voters
            /\ \A u \in Users :
                 VoteStepOf(u, pid) =>
                   last_event'.result \in {"PollEnded", "PollNotFound", "Paused"}]_vars

\* A vote arrives while close_poll_internal is suspended on platform I/O: the
\* poll is still in the live store, holds votes, and the vote is turned down.
NoTallyMutationAfterCloseWitness ==
    \E pid \in active_polls :
        /\ polls[pid].ended
        /\ CloseSuspended(pid)
        /\ DOMAIN polls[pid].voters # {}
        /\ last_event.op = "vote"
        /\ last_event.poll = pid
        /\ last_event.result = "PollEnded"

----------------------------------------------------------------------------
(* Claims about the ticket system, checked under SpecTicket *)

\* Every role a member can hold in the model.
AllRoles ==
    {ROLE_INTERNAL_AFFAIRS, ROLE_MGMT, ROLE_DIRECTORSHIP, ROLE_ALT, "OTHER"}

\* The eligibility predicate as the specification states it: a claim-all role
\* qualifies for every key, Internal Affairs for ia, support and department.
ClaimEligibility(key, roles) ==
    \/ roles \cap {ROLE_MGMT, ROLE_DIRECTORSHIP, ROLE_ALT} # {}
    \/ key \in {"ia", "support", "department"} /\ ROLE_INTERNAL_AFFAIRS \in roles

\* The step is a run of TicketControls.claim on ticket tid.
ClaimStepOf(tid) ==
    /\ last_tevent' # last_tevent
    /\ last_tevent'.op = "claim"
    /\ last_tevent'.ticket = tid

\* C8: claim exclusivity.  At most one claim attempt on a ticket succeeds; an
\* eligible actor's attempt on a claimed ticket answers AlreadyClaimed and one
\* on an unclaimed ticket succeeds and sets claimed_by to that actor; once
\* set, claimed_by never changes and is never unset.
ClaimExclusivity ==
    /\ [](\A tid \in TicketIds : claims_won[tid] <= 1)
    /\ [][\A tid \in TicketIds :
            HasKey(tickets, tid) =>
                /\ HasKey(tickets', tid)
                /\ tickets[tid].claimed_by # "None"
                      => tickets'[tid].claimed_by = tickets[tid].claimed_by
                /\ ClaimStepOf(tid) /\ ClaimEligibility(tickets[tid].ticket_key,
                                                        last_tevent'.roles)
                      => IF tickets[tid].claimed_by # "None"
                         THEN last_tevent'.result = "AlreadyClaimed"
                         ELSE /\ last_tevent'.result = "Claimed"
                              /\ tickets'[tid].claimed_by = last_tevent'.user
                              /\ claims_won'[tid] = 1]_vars

\* An eligible member has just been refused a ticket somebody else holds.
ClaimExclusivityWitness ==
    \E tid \in TicketIds :
        /\ HasKey(tickets, tid)
        /\ tickets[tid].claimed_by # "None"
        /\ claims_won[tid] = 1
        /\ last_tevent.op = "claim"
        /\ last_tevent.ticket = tid
        /\ last_tevent.result = "AlreadyClaimed"
        /\ ClaimEligibility(tickets[tid].ticket_key, last_tevent.roles)

\* C9: claim eligibility.  _can_claim accepts exactly the role sets the
\* eligibility predicate accepts, for every ticket key, and claimed_by is only
\* ever set by a claim of an actor whose roles satisfied the predicate for the
\* ticket's key at that moment.
ClaimEligibilityInvariant ==
    /\ \A key \in TICKET_OPTIONS, roles \in SUBSET AllRoles :
           can_claim(key, roles) <=> ClaimEligibility(key, roles)
    /\ [][\A tid \in TicketIds :
            /\ HasKey(tickets', tid)
            /\ tickets'[tid].claimed_by # "None"
            /\ ~HasKey(tickets, tid) \/ tickets[tid].claimed_by # tickets'[tid].claimed_by
            => /\ last_tevent'.op = "claim"
               /\ last_tevent'.ticket = tid
               /\ last_tevent'.result = "Claimed"
               /\ last_tevent'.user = tickets'[tid].claimed_by
               /\ ClaimEligibility(tickets'[tid].ticket_key, last_tevent'.roles)]_vars

\* An Internal Affairs member without a claim-all role has just claimed an ia
\* ticket.
ClaimEligibilityWitness ==
    \E tid \in TicketIds :
        /\ HasKey(tickets, tid)
        /\ tickets[tid].ticket_key = "ia"
        /\ last_tevent.op = "claim"
        /\ last_tevent.result = "Claimed"
        /\ last_tevent.roles = {ROLE_INTERNAL_AFFAIRS}
        /\ tickets[tid].claimed_by = last_tevent.user

\* C10: ticket close is idempotent in effect.  For every ticket the transcript
\* is captured, the archive delivered and the opener notified at most once,
\* whatever close requests are made.
TicketCloseAtMostOnce ==
    \A tid \in TicketIds :
        captures[tid] <= 1 /\ archives[tid] <= 1 /\ notifies[tid] <= 1

----------------------------------------------------------------------------
(* Further claims on the poll system, checked under SpecPoll *)

\* A close of poll pid has begun and is suspended on platform I/O, at any of
\* its awaits: the defer of /closepoll, fetch_message or msg.edit.
CloseInProgress(pid) ==
    \E t \in BagToSet(poll_tasks) :
        t.poll = pid /\ t.kind \in CloseKinds /\ t.pc \in {"defer", "fetch", "edit"}

\* C11: in every close, manual or by the timer, ended is true before the close
\* performs its first outbound platform call: whenever a close of a poll is
\* suspended on I/O, the poll's ended flag is already true.
CloseCommitsBeforeIO ==
    \A pid \in DOMAIN polls : CloseInProgress(pid) => polls[pid].ended

\* The step is auto_close waking from its sleep for poll pid.
TimerFires(pid) ==
    /\ HasKey(timers, pid)
    /\ timers[pid] = "sleeping"
    /\ timers'[pid] # "sleeping"

\* C12: when the auto-close timer of a poll fires after the poll was closed
\* (ended, or evicted from the live store), the callback renders nothing,
\* evicts nothing and changes no state; nothing but its own firing ends the
\* timer, a manual close leaves it sleeping.
AutoCloseNeutralised ==
    [][\A pid \in DOMAIN timers :
         /\ (TimerFires(pid) /\ (polls[pid].ended \/ pid \notin active_polls))
               => /\ polls' = polls
                  /\ active_polls' = active_polls
                  /\ poll_tasks' = poll_tasks
                  /\ poll_msgs' = poll_msgs
                  /\ close_runs' = close_runs
                  /\ final_renders' = final_renders
                  /\ last_event' = Event("auto_close", pid, "None", 0, "Noop")
         /\ HasKey(timers', pid)
         /\ TimerFires(pid) => last_event'.op = "auto_close"
         /\ timers[pid] = "done" => timers'[pid] = "done"]_vars

\* The timer has just fired on a poll that a manual close had ended, rendered
\* closed and evicted; the render stayed as the manual close left it.
AutoCloseNeutralisedWitness ==
    \E pid \in DOMAIN timers :
        /\ timers[pid] = "done"
        /\ last_event = Event("auto_close", pid, "None", 0, "Noop")
        /\ polls[pid].ended
        /\ pid \notin active_polls
        /\ close_runs[pid] = 1
        /\ final_renders[pid] = 1
        /\ poll_msgs[pid] = "closed"

----------------------------------------------------------------------------
(* Further claims on the escalation tracker, checked under SpecLadder *)

\* The deliveries of on_message that failed.
FailedDeliveries == {"warn_failed", "timeout_failed"}

\* C13: when the warning reply or the timeout of an offense fails, the user's
\* strike record keeps the advanced count and its window end: no return of an
\* awaited platform call, failed or not, changes a strike record, and the next
\* offense of that user inside the window returns the stored count + 1 with
\* the window end unchanged.
EscalationAuthoritative ==
    /\ [][DeliveryStep => mention_strikes' = mention_strikes]_vars
    /\ [][last_msg'.action \in FailedDeliveries /\ last_msg' # last_msg
            => /\ DeliveryStep
               /\ HasKey(mention_strikes', last_msg'.author)]_vars
    /\ [][\A u \in Users :
            (/\ OffenseStepOf(u)
             /\ last_msg.author = u
             /\ last_msg.action \in FailedDeliveries
             /\ now < mention_strikes[u].reset_at)
              => /\ last_msg'.count = mention_strikes[u].count + 1
                 /\ mention_strikes'[u] =
                        [mention_strikes[u] EXCEPT !.count = @ + 1]]_vars

\* The timeout of a third offense has just failed, and the record holds 3
\* inside its window.
EscalationAuthoritativeWitness ==
    /\ last_msg.action = "timeout_failed"
    /\ last_msg.count = 3
    /\ mention_strikes[last_msg.author].count = 3
    /\ now < mention_strikes[last_msg.author].reset_at

----------------------------------------------------------------------------
(* Further claims on the ticket system, checked under SpecTicket *)

\* The awaits of close_ticket_with_transcript, in the order of the steps:
\* capture, archive (create, send), notify (find the opener, send), destroy.
CloseStages == {"history", "tcreate", "tsend", "history2", "dm", "delete"}

\* The awaits that may follow each await of a close, whatever its outcome.
CloseSuccessors(pc) ==
    CASE pc = "history" -> {"tcreate", "history2"}
      [] pc = "tcreate" -> {"tsend", "history2"}
      [] pc = "tsend" -> {"history2"}
      [] pc = "history2" -> {"dm", "delete"}
      [] pc = "dm" -> {"delete"}
      [] OTHER -> {}

\* The step resumes a close coroutine that was suspended as task t.
CloseResumes(t) ==
    /\ t.kind = "close"
    /\ CopiesIn(t, ticket_tasks') < CopiesIn(t, ticket_tasks)

\* C14: the steps of a ticket close are attempted in the order capture,
\* archive, notify, destroy whatever fails: a close that has started leaves
\* each await only for a later one of the sequence, success or failure, ends
\* only after attempting the destruction of the channel, and each effect
\* happens at its own step.
CloseStepsOrdered ==
    /\ [](\A t \in BagToSet(ticket_tasks) :
             t.kind = "close" => t.pc \in CloseStages \cup {"defer"})
    /\ [][/\ \A t \in BagToSet(ticket_tasks) :
               (CloseResumes(t) /\ t.pc \in CloseStages \ {"delete"})
                  => \E t2 \in BagToSet(ticket_tasks') :
                        /\ t2.kind = "close"
                        /\ t2.ticket = t.ticket
                        /\ t2.pc \in CloseSuccessors(t.pc)
                        /\ CopiesIn(t2, ticket_tasks') = CopiesIn(t2, ticket_tasks) + 1
          /\ \A tid \in TicketIds :
               /\ captures'[tid] # captures[tid]
                    => \E t \in BagToSet(ticket_tasks) :
                          CloseResumes(t) /\ t.ticket = tid /\ t.pc = "history"
               /\ archives'[tid] # archives[tid]
                    => \E t \in BagToSet(ticket_tasks) :
                          CloseResumes(t) /\ t.ticket = tid /\ t.pc = "tsend"
               /\ notifies'[tid] # notifies[tid]
                    => \E t \in BagToSet(ticket_tasks) :
                          CloseResumes(t) /\ t.ticket = tid /\ t.pc = "dm"
               /\ (ChannelAlive(tid) /\ ~ChannelAlive(tid)')
                    => \E t \in BagToSet(ticket_tasks) :
                          /\ CloseResumes(t) /\ t.ticket = tid /\ t.pc = "delete"
                          /\ BagCardinality(ticket_tasks') =
                                 BagCardinality(ticket_tasks) - 1]_vars

\* The only close of a ticket failed to capture, to archive and to notify the
\* opener it had found, and is now attempting the destruction of the channel.
CloseStepsOrderedWitness ==
    \E t \in BagToSet(ticket_tasks) :
        /\ t.kind = "close"
        /\ t.pc = "delete"
        /\ t.opener # "None"
        /\ close_reqs[t.ticket] = 1
        /\ captures[t.ticket] = 0
        /\ archives[t.ticket] = 0
        /\ notifies[t.ticket] = 0
        /\ ChannelAlive(t.ticket)

\* A close of ticket tid has been invoked and has not finished: its coroutine
\* is suspended at the defer or at an await of close_ticket_with_transcript.
TicketClosing(tid) ==
    \E t \in BagToSet(ticket_tasks) : t.kind = "close" /\ t.ticket = tid

\* C15: a ticket is terminal once close is invoked: while a close of the
\* ticket is under way (Claim leaves the suspended coroutines as they are), no
\* claim attempt on it succeeds.
TicketTerminalOnceClosing ==
    \A tid \in TicketIds :
        TicketClosing(tid) =>
            ~(/\ last_tevent.op = "claim"
              /\ last_tevent.ticket = tid
              /\ last_tevent.result = "Claimed")

----------------------------------------------------------------------------
(* Further claims on the poll system, continued *)

\* C16: closed is terminal for a poll even when rendering fails.  ended never
\* goes back to false; a poll whose close has run to its end on any path
\* (no channel, fetch failed, edit failed, all succeeded) is out of the live
\* store; and no poll that was ended or evicted is put into the live store.
ClosedIsTerminal ==
    /\ [](\A pid \in DOMAIN polls :
             (polls[pid].ended /\ ~CloseSuspended(pid)) => pid \notin active_polls)
    /\ [][\A pid \in DOMAIN polls :
            /\ HasKey(polls', pid)
            /\ polls[pid].ended => polls'[pid].ended
            /\ (pid \notin active_polls /\ pid \in active_polls')
                  => /\ ~polls[pid].ended
                     /\ close_runs[pid] = 0
                     /\ ~HasKey(timers, pid)]_vars

\* A close ran to its end while the final render failed: the message still
\* shows the open poll, and the poll is ended and evicted.
ClosedIsTerminalWitness ==
    \E pid \in DOMAIN polls :
        /\ polls[pid].ended
        /\ close_runs[pid] = 1
        /\ final_renders[pid] = 0
        /\ poll_msgs[pid] = "open"
        /\ ~CloseInProgress(pid)
        /\ pid \notin active_polls

\* C17: the voter role gate.  A vote on a live poll that has a voter role, by
\* a member who does not hold that role, is answered NotEligibleToVote and
\* leaves the poll as it was; the voters and the tallies of a poll only change
\* by the vote of a member who was not stopped at the gate.
VoterRoleGate ==
    [][\A pid \in DOMAIN polls :
         /\ \A u \in Users :
              (VoteStepOf(u, pid) /\ last_event'.lacks_role)
                 => /\ last_event'.result = "NotEligibleToVote"
                    /\ polls' = polls
                    /\ poll_tasks' = poll_tasks
                    /\ poll_msgs' = poll_msgs
         /\ (\/ polls'[pid].voters # polls[pid].voters
             \/ polls'[pid].votes # polls[pid].votes)
              => /\ last_event'.op = "vote"
                 /\ last_event'.poll = pid
                 /\ last_event'.result = "Voted"
                 /\ ~last_event'.lacks_role
                 /\ polls'[pid].voters =
                        DictSet(polls[pid].voters, last_event'.user, last_event'.idx)]_vars

\* A member without the voter role has just been turned away from a live poll
\* that holds the vote of a member with the role.
VoterRoleGateWitness ==
    \E pid \in active_polls :
        /\ polls[pid].voter_role_id # "None"
        /\ ~polls[pid].ended
        /\ last_event.op = "vote"
        /\ last_event.poll = pid
        /\ last_event.lacks_role
        /\ last_event.result = "NotEligibleToVote"
        /\ DOMAIN polls[pid].voters # {}
        /\ last_event.user \notin DOMAIN polls[pid].voters

\* C18: a vote whose option index is not an index of the poll's options is
\* rejected without any state change: every key of the tallies and every value
\* of voters is in 0 .. len(options) - 1.
OptionIndexInBounds ==
    \A pid \in DOMAIN polls :
        /\ DOMAIN polls[pid].votes \subseteq 0 .. polls[pid].noptions - 1
        /\ \A u \in DOMAIN polls[pid].voters :
               polls[pid].voters[u] \in 0 .. polls[pid].noptions - 1

\* The step is a run of poll_cmd for poll pid up to its first await.
PollCmdStepOf(pid) ==
    /\ last_event' # last_event
    /\ last_event'.op = "poll"
    /\ last_event'.poll = pid

\* C19: poll creation validation.  A create with fewer than 2 or more than 10
\* options is rejected, stores no poll and schedules no timer; every poll in
\* the live store, and every poll with a timer, has 2 to 10 options; a poll
\* enters the live store with ended false and empty tallies and voters.
PollCreationValidation ==
    /\ [](\A n \in 0 .. OPTION_PARAMS + 1 : OptionCountValid(n) <=> (n >= 2 /\ n <= 10))
    /\ [](\A pid \in active_polls \cup DOMAIN timers : polls[pid].noptions \in 2 .. 10)
    /\ [][\A pid \in PollIds :
            /\ PollCmdStepOf(pid) =>
                 IF last_event'.idx < 2 \/ last_event'.idx > 10
                 THEN /\ last_event'.result = "InvalidOptionCount"
                      /\ polls' = polls
                      /\ active_polls' = active_polls
                      /\ timers' = timers
                      /\ poll_tasks' = poll_tasks
                      /\ poll_msgs' = poll_msgs
                 ELSE last_event'.result = "Creating"
            /\ (pid \notin active_polls /\ pid \in active_polls')
                 => /\ polls'[pid].noptions \in 2 .. 10
                    /\ ~polls'[pid].ended
                    /\ polls'[pid].votes = EmptyDict
                    /\ polls'[pid].voters = EmptyDict
                    /\ HasKey(timers', pid)]_vars

\* A create with one option has just been rejected: nothing is stored,
\* nothing is scheduled and no coroutine is left running.
PollCreationValidationWitness ==
    /\ last_event = Event("poll", 1, "None", 1, "InvalidOptionCount")
    /\ polls = EmptyDict
    /\ active_polls = {}
    /\ timers = EmptyDict
    /\ poll_tasks = EmptyBag

----------------------------------------------------------------------------
(* Further claims on the ticket system, continued *)

\* The ways TicketDropdown.callback fails.
OpenFailures == {"InvalidCategory", "CategoryMissing", "SurfaceCreationFailed"}

\* C20: ticket open leaves no partial state on failure.  An unknown key, a
\* missing destination category or a failed channel creation ends the
\* operation with no channel and no TicketControls; a TicketControls exists
\* only for a channel that was created, and starts with the selected key, the
\* selecting member as opener and claimed_by unset.
TicketOpenNoPartialState ==
    /\ [](\A tid \in DOMAIN tickets : HasKey(channels, tid))
    /\ [][\A tid \in TicketIds :
            /\ (/\ last_tevent' # last_tevent
                /\ last_tevent'.op = "open"
                /\ last_tevent'.ticket = tid
                /\ last_tevent'.result \in OpenFailures)
                 => /\ ~HasKey(channels', tid)
                    /\ ~HasKey(tickets', tid)
                    /\ \A t \in BagToSet(ticket_tasks') : t.ticket # tid
            /\ (~HasKey(tickets, tid) /\ HasKey(tickets', tid))
                 => /\ ChannelAlive(tid)
                    /\ ChannelAlive(tid)'
                    /\ tickets'[tid].claimed_by = "None"
                    /\ tickets'[tid].ticket_key \in TICKET_OPTIONS
                    /\ \E t \in BagToSet(ticket_tasks) :
                          /\ t.kind = "open" /\ t.pc = "send" /\ t.ticket = tid
                          /\ tickets'[tid].ticket_key = t.key
                          /\ tickets'[tid].opener_id = t.user]_vars

\* The creation of the ticket channel has just failed: there is no channel, no
\* TicketControls and no coroutine left.
TicketOpenNoPartialStateWitness ==
    /\ last_tevent.op = "open"
    /\ last_tevent.result = "SurfaceCreationFailed"
    /\ tickets = EmptyDict
    /\ channels = EmptyDict
    /\ ticket_tasks = EmptyBag

----------------------------------------------------------------------------
(* C21: failed poll operations change nothing *)

\* The results with which a vote or a /closepoll fails.  /closepoll answers
\* "Poll not found or already closed" with the single result NotFound.
FailedPollResults ==
    {"PollNotFound", "PollEnded", "NotEligibleToVote", "NotFound"}

\* The live store: the registered polls with their tallies, voters, ended flag
\* and voter role.
LiveStore == [pid \in active_polls |-> polls[pid]]

\* C21: a vote or a /closepoll that fails with PollNotFound, PollEnded,
\* NotEligibleToVote or "not found or already closed" leaves every poll's
\* tally, voters, ended flag and voter role, and the membership of the live
\* store, unchanged.
FailedPollOpsChangeNothing ==
    [][(/\ last_event' # last_event
        /\ last_event'.op \in {"vote", "closepoll"}
        /\ last_event'.result \in FailedPollResults)
         => /\ polls' = polls
            /\ active_polls' = active_polls
            /\ LiveStore' = LiveStore
            /\ poll_tasks' = poll_tasks]_vars

\* A /closepoll with a voter-role override has just failed on a poll that was
\* closed and evicted, and the poll's voter role is not the override's.
FailedPollOpsChangeNothingWitness ==
    /\ last_event.op = "closepoll"
    /\ last_event.result = "NotFound"
    /\ 1 \in DOMAIN polls
    /\ 1 \notin active_polls
    /\ polls[1].ended
    /\ polls[1].voter_role_id = "None"

----------------------------------------------------------------------------
(* C22: order of the checks of a claim *)

\* C22: a claim attempt on a ticket whose claimed_by is already set is answered
\* AlreadyClaimed whoever makes it, and NotEligible is answered only on a
\* ticket that is still unclaimed.  A rejected claim leaves claimed_by as it
\* found it, so the state after the answer shows the ticket the attempt saw.
ClaimCheckOrder ==
    \A tid \in DOMAIN tickets :
        (/\ last_tevent.op = "claim"
         /\ last_tevent.ticket = tid
         /\ last_tevent.result = "NotEligible")
          => tickets[tid].claimed_by = "None"

----------------------------------------------------------------------------
(* C23: the closed presentation is final *)

\* C23: once a close of the poll has put the final render on the poll message
\* (closed embed, disabled buttons), no later update shows the poll as open
\* with enabled buttons, the live update of a vote applied before the close
\* included.
ClosedPresentationFinal ==
    \A pid \in DOMAIN poll_msgs :
        final_renders[pid] >= 1 => poll_msgs[pid] = "closed"

----------------------------------------------------------------------------
(* C24: the recipient of the close notification *)

\* C24: whenever the close of a ticket sends its notification, the recipient
\* is the ticket's opener_id, the member who selected the category, whatever
\* the history of the ticket channel is.
CloseNotifiesOpener ==
    \A tid \in DOMAIN tickets :
        (/\ last_tevent.op = "notify"
         /\ last_tevent.ticket = tid)
          => last_tevent.user = tickets[tid].opener_id

----------------------------------------------------------------------------
(* C25: the strike records *)

\* C25: every stored record has count >= 1 and reset_at equal to the instant
\* of the first offense of its current window plus 24h; an offense inside the
\* window increments count and leaves reset_at alone; a step changes no record
\* but that of the author of the offense it registers.
StrikeRecordInvariant ==
    /\ [](\A u \in DOMAIN mention_strikes :
            /\ mention_strikes[u].count >= 1
            /\ HasKey(window_start, u)
            /\ mention_strikes[u].reset_at
                 = window_start[u] + STRIKE_RESET_HOURS * 3600)
    /\ [][\A u \in Users :
            /\ (HasKey(mention_strikes, u) /\ ~HasKey(mention_strikes', u)) => FALSE
            /\ (/\ HasKey(mention_strikes', u)
                /\ \/ ~HasKey(mention_strikes, u)
                   \/ mention_strikes'[u] # mention_strikes[u])
                 => /\ last_msg'.author = u
                    /\ last_msg'.action = "registered"
            /\ (/\ HasKey(mention_strikes, u)
                /\ mention_strikes'[u] # mention_strikes[u]
                /\ now < mention_strikes[u].reset_at)
                 => /\ mention_strikes'[u].count = mention_strikes[u].count + 1
                    /\ mention_strikes'[u].reset_at = mention_strikes[u].reset_at]_vars

\* User B has offended twice inside the window opened at 0h and user A has
\* just offended once at a later instant: B's record still ends at 0h + 24h.
StrikeRecordInvariantWitness ==
    /\ HasKey(mention_strikes, "A") /\ HasKey(mention_strikes, "B")
    /\ mention_strikes["B"].count = 2
    /\ mention_strikes["B"].reset_at = STRIKE_RESET_HOURS * 3600
    /\ mention_strikes["A"].count = 1
    /\ mention_strikes["A"].reset_at > mention_strikes["B"].reset_at
    /\ last_msg.author = "A"
    /\ last_msg.action = "registered"

----------------------------------------------------------------------------
(* C26: every poll is eventually closed *)

\* The scheduler eventually wakes auto_close from its sleep, and every
\* platform call a poll coroutine is suspended on eventually returns or fails.
PollFairness ==
    \A pid \in PollIds :
        /\ WF_vars(\E chan_ok \in BOOLEAN : AutoCloseFire(pid, chan_ok))
        /\ WF_vars(\E ok \in BOOLEAN : PollCmdDeferred(pid, ok))
        /\ WF_vars(\E ok \in BOOLEAN : PollCmdPosted(pid, ok))
        /\ WF_vars(PollCmdRegister(pid))
        /\ WF_vars(\E ok \in BOOLEAN : VoteFetched(pid, ok))
        /\ WF_vars(\E ok \in BOOLEAN : VoteEdited(pid, ok))
        /\ WF_vars(\E ok \in BOOLEAN, chan_ok \in BOOLEAN :
                      ClosePollDeferred(pid, ok, chan_ok))
        /\ \A kind \in CloseKinds :
              /\ WF_vars(\E ok \in BOOLEAN : CloseFetched(kind, pid, ok))
              /\ WF_vars(\E ok \in BOOLEAN : CloseEdited(kind, pid, ok))

SpecPollFair == Init /\ [][PollNext]_vars /\ PollFairness

\* C26: under PollFairness every poll registered in active_polls eventually
\* has ended = TRUE and is evicted from active_polls, whether or not /closepoll
\* is ever run and whatever votes arrive in between.
EveryPollEventuallyClosed ==
    \A pid \in PollIds :
        (pid \in active_polls)
          ~> (pid \in DOMAIN polls /\ polls[pid].ended /\ pid \notin active_polls)

\* The timer has closed a poll on which a vote had been applied and no
\* /closepoll was ever accepted: the poll has ended and is evicted.
EveryPollEventuallyClosedWitness ==
    /\ 1 \in DOMAIN polls
    /\ polls[1].ended
    /\ 1 \notin active_polls
    /\ timers[1] = "done"
    /\ close_runs[1] = 1
    /\ DOMAIN polls[1].voters # {}
    /\ poll_tasks = EmptyBag
    /\ last_event.op = "io"

----------------------------------------------------------------------------
(* C27: the shutdown confirmation *)

\* C27: an invocation of codedelete has exactly one outcome.  The bot shuts
\* down only through an invocation by the master whose wait was answered, and
\* a wait is answered only by a message whose text is CONFIRM DELETE
\* (surrounding whitespace aside, which str.strip removes), from the invoking
\* author, in the invoking channel, no later than 15 seconds after the wait
\* began; a wait whose timeout fired never shuts the bot down; a codedelete
\* from a non-master starts no wait; and no invocation both is answered and
\* runs the abort of the fired outcome.
ShutdownConfirmation ==
    /\ [](\A i \in DOMAIN cd_tasks :
            /\ cd_tasks[i].author = MASTER_USER_ID
            /\ cd_tasks[i].closed => cd_tasks[i].answered
            /\ cd_tasks[i].fired => ~cd_tasks[i].closed
            /\ ~(cd_tasks[i].answered /\ cd_tasks[i].fired)
            /\ ~(cd_tasks[i].answered /\ cd_tasks[i].aborted))
    /\ [](~running => \E i \in DOMAIN cd_tasks : cd_tasks[i].closed)
    /\ [][/\ (/\ last_cevent' # last_cevent
              /\ last_cevent'.result = "NotMaster") => cd_tasks' = cd_tasks
          /\ \A i \in DOMAIN cd_tasks :
                (~cd_tasks[i].answered /\ cd_tasks'[i].answered)
                  => /\ last_cevent'.op = "message"
                     /\ last_cevent'.text.body = "CONFIRM DELETE"
                     /\ last_cevent'.author = cd_tasks[i].author
                     /\ last_cevent'.channel = cd_tasks[i].channel
                     /\ cd_clock <= cd_tasks[i].deadline
                     /\ cd_tasks[i].deadline - CONFIRM_TIMEOUT <= cd_clock]_vars

----------------------------------------------------------------------------
(* C28: a posted poll is votable *)

\* C28: while the message of a poll is on the platform with enabled buttons
\* and the poll has not been closed, a vote on it by a member allowed to vote,
\* for one of its options, is never answered "ended or does not exist".  A
\* rejected vote changes nothing, so the state after the answer shows the poll
\* the vote saw.
PostedPollVotable ==
    \A pid \in DOMAIN poll_msgs :
        (/\ last_event.op = "vote"
         /\ last_event.poll = pid
         /\ ~last_event.lacks_role
         /\ last_event.idx \in 0 .. polls[pid].noptions - 1
         /\ poll_msgs[pid] = "open"
         /\ ~polls[pid].ended
         /\ close_runs[pid] = 0)
          => last_event.result \notin {"PollNotFound", "PollEnded"}

----------------------------------------------------------------------------
(* C29: one offense per message *)

\* The messages that on_message takes for no offense: those of a bot, the
\* direct messages, those holding the master trigger phrase and those that
\* mention no protected member.
NonOffenseMessages ==
    {m \in Messages : m.bot \/ ~m.guild \/ m.trigger \/ m.nprot = 0}

StrikeCount(strikes, u) == IF HasKey(strikes, u) THEN strikes[u].count ELSE 0

\* C29: a message registers at most one offense for its author however many
\* protected members it mentions, and a message from a bot, a direct message,
\* a message with no protected mention or a message holding the master trigger
\* phrase leaves every strike record unchanged.
OneOffensePerMessage ==
    [][/\ mention_strikes' # mention_strikes
            => \A author \in Users, m \in NonOffenseMessages :
                   ~OnMessage(author, m)
       /\ \A u \in Users :
            \/ /\ HasKey(mention_strikes', u) <=> HasKey(mention_strikes, u)
               /\ HasKey(mention_strikes, u)
                    => mention_strikes'[u] = mention_strikes[u]
            \/ /\ last_msg'.author = u
               /\ last_msg'.action = "registered"
               /\ last_msg'.mentions >= 1
               /\ \/ StrikeCount(mention_strikes', u)
                       = StrikeCount(mention_strikes, u) + 1
                  \/ StrikeCount(mention_strikes', u) = 1]_vars

\* A message of user B that mentions two protected members has just been
\* registered inside B's window: it is B's second offense.
OneOffensePerMessageWitness ==
    /\ last_msg.author = "B"
    /\ last_msg.action = "registered"
    /\ last_msg.mentions = 2
    /\ last_msg.count = 2
    /\ mention_strikes["B"].count = 2
    /\ ~HasKey(mention_strikes, "A")

----------------------------------------------------------------------------
(* C30: the pause blocks votes *)

\* The prefix commands of the master that pause and resume the bot.
PauseCommands ==
    { Msg(FALSE, TRUE, FALSE, TRUE, "esd", 0),
      Msg(FALSE, TRUE, FALSE, TRUE, "stu", 0) }

\* The poll system together with clr!esd and clr!stu.
PollPauseNext ==
    \/ PollNext
    \/ \E m \in PauseCommands : OnMessage(MASTER_USER_ID, m)

SpecPollPause == Init /\ [][PollPauseNext]_vars

\* C30: while is_paused is true a component interaction of a user other than
\* the master is answered Paused and changes no tally and no voters, a vote of
\* the master is not stopped by the pause, and when is_paused is false no vote
\* is stopped by it; a vote that is not stopped and passes the other checks is
\* recorded for its voter.
PauseBlocksVotes ==
    [][/\ \A pid \in DOMAIN polls :
            (/\ is_paused
             /\ \/ polls'[pid].votes # polls[pid].votes
                \/ polls'[pid].voters # polls[pid].voters)
              => /\ last_event'.op = "vote"
                 /\ last_event'.user = MASTER_USER_ID
       /\ \A u \in Users, pid \in PollIds :
            VoteStepOf(u, pid)
              => /\ last_event'.result = "Paused"
                    <=> (is_paused /\ last_event'.user # MASTER_USER_ID)
                 /\ last_event'.result = "Paused" => polls' = polls
                 /\ (/\ pid \in active_polls
                     /\ ~polls[pid].ended
                     /\ ~last_event'.lacks_role
                     /\ last_event'.result \notin
                          {"Paused", "Ignored", "AlreadyVotedSameOption"})
                      => /\ last_event'.result = "Voted"
                         /\ polls'[pid].voters[last_event'.user]
                              = last_event'.idx]_vars

\* The bot is paused, the master's vote is recorded on a live poll, and the
\* vote of user B has just been answered Paused.
PauseBlocksVotesWitness ==
    /\ is_paused
    /\ 1 \in active_polls
    /\ ~polls[1].ended
    /\ DOMAIN polls[1].voters = {MASTER_USER_ID}
    /\ last_event.op = "vote"
    /\ last_event.user = "B"
    /\ last_event.result = "Paused"

----------------------------------------------------------------------------
(* C31: the pause and the anti-ping escalation *)

\* C31: while is_paused is true no message of a user other than the master
\* changes a strike record or draws a warning or a timeout, whatever it holds,
\* the messages that start with clr! included.  Every step that assigns
\* is_paused leaves in last_msg something else than a registration; so when
\* is_paused is true and last_msg is the registration of a strike, the strike
\* was registered during the pause.
PauseBlocksEscalation ==
    (is_paused /\ last_msg.author \in Users \ {MASTER_USER_ID})
      => last_msg.action # "registered"

====
